---- MODULE Spec2Model ----
(***************************************************************************)
(* Verification model of bevy_rectray: the LayoutRange windowing policy,   *)
(* the RotatedRect / Transform2 geometry, the out-of-frame policy and the  *)
(* breadth-first hierarchy walker (compute_transform_2d / propagate).      *)
(*                                                                         *)
(* Numbers.  usize values are naturals far below usize::MAX.  f32 lengths  *)
(* (dimension, offset, center, translation) are exact integers; fractions  *)
(* (anchors, the padding factor) are exact rationals n/d per axis, with    *)
(* 0/0 standing for NaN.  Rotations are whole quarter turns, so rotating a *)
(* vector is exact.                                                        *)
(***************************************************************************)
EXTENDS Integers, Sequences, FiniteSets, TLC

VARIABLES
    \* ---- LayoutRange under test (layout/container.rs)
    range,      \* the LayoutRange value
    range0,     \* the value it had before resolve
    total,      \* the `total` argument
    window,     \* the Range<usize> returned by to_range
    rpc,        \* "new" | "resolved" | "panicked" | "ranged"
    \* ---- RotatedRect under test (rect.rs)
    nrects,     \* the rect before and after each nudge_inside call
    nbounds,    \* the `bounds` argument
    cargs,      \* the arguments of construct and the anchor probed (<<>>: none)
    crect,      \* Option of the rect construct returned
    cpoint,     \* Option of rect.anchor(probe)
    clocal,     \* Option of rect.local_space(that point)
    \* ---- Container under test (layout/container.rs)
    cont,       \* the Container (<<>>: none)
    cont0,      \* the Container before the last operation on it
    largs,      \* the LayoutInfo and LayoutItems every tick hands to place
    lout,       \* Option of the LayoutOutput of the last tick
    sfac,       \* Option of the factor passed to set_fac / returned by get_fac
    cop,        \* the last operation: "new" | "set_fac" | "get_fac" |
                \* "increment" | "decrement" | "place" | "panicked"
    incs,       \* increment calls since the previous tick, kept through
                \* the tick that follows them
    \* ---- the entity world read by compute_transform_2d (pipeline.rs)
    children,   \* entity -> its Children, in order (<<>> when it has none)
    frames,     \* entities carrying RectrayFrame -> that component
    nodes,      \* entities matched by the REntity query -> their components
    containers, \* entities carrying Container -> that component
    rects,      \* entities matched by transform_query -> RotatedRect
    transforms, \* entities matched by transform_query -> Transform
    \* ---- the walker
    queue_a,    \* Local<Vec<(Entity, ParentInfo)>>
    queue_b,    \* Local<Vec<(Entity, ParentInfo)>>
    pc,         \* "idle" | "loop" | "drain" | "panicked"
    changed,    \* entities whose InterpolateTransform is_changed() for the
                \* next run of the system (added or set since its last run)
    \* ---- what happened in the current tick
    processed,  \* the (entity, ParentInfo) entries propagate was called on, in order
    writes,     \* entities whose RotatedRect and Transform were written
    pushes,     \* <<parent, child>> for every entry propagate enqueued
    prev,       \* the components as the current tick found them, whether it
                \* follows a returned tick with nothing edited in between,
                \* and the order root_query yielded the Frames in, for this
                \* tick and the one before (<<>> before the first tick)
    \* ---- other systems editing components between ticks
    dirty,      \* a component was edited since the last tick started
    edits,      \* number of edits so far
    \* ---- a single call under test (the padding rescale, Transform2::mul)
    fnargs,     \* the arguments drawn
    fnout       \* what the call returned (<<>> before the call)

rangeVars == <<range, range0, total, window, rpc>>

constructVars == <<cargs, crect, cpoint, clocal>>

rectVars == <<nrects, nbounds, cargs, crect, cpoint, clocal>>

containerVars == <<cont, cont0, largs, lout, sfac, cop, incs>>

worldVars == <<children, frames, nodes>>

walkVars == <<containers, rects, transforms, queue_a, queue_b, pc, changed,
              processed, writes, pushes, prev, dirty, edits>>

callVars == <<fnargs, fnout>>

vars == <<range, range0, total, window, rpc, nrects, nbounds,
          cargs, crect, cpoint, clocal,
          cont, cont0, largs, lout, sfac, cop, incs,
          children, frames, nodes, containers, rects, transforms,
          queue_a, queue_b, pc, changed, processed, writes, pushes,
          prev, dirty, edits, fnargs, fnout>>

----------------------------------------------------------------------------
(* Small arithmetic helpers (std / glam)                                   *)

Min2(a, b) == IF a <= b THEN a ELSE b

Max2(a, b) == IF a >= b THEN a ELSE b

\* usize::saturating_sub
saturating_sub(a, b) == IF a >= b THEN a - b ELSE 0

----------------------------------------------------------------------------
(* LayoutRange                                                             *)

MaxMin == 4

MaxLen == 3

MaxTotal == 4

RangeAll == [tag |-> "All", min |-> 0, step |-> 0, len |-> 0]

Bounded(min, len) == [tag |-> "Bounded", min |-> min, step |-> 0, len |-> len]

Capped(min, len) == [tag |-> "Capped", min |-> min, step |-> 0, len |-> len]

Stepped(step, len) == [tag |-> "Stepped", min |-> 0, step |-> step, len |-> len]

LayoutRange ==
    {RangeAll}
    \cup {Bounded(m, l) : m \in 0..MaxMin, l \in 0..MaxLen}
    \cup {Capped(m, l) : m \in 0..MaxMin, l \in 0..MaxLen}
    \cup {Stepped(s, l) : s \in 0..MaxMin, l \in 0..MaxLen}

\* `total / *len` with len = 0 is an integer division by zero: a panic.
resolve_panics(r, n) == r.tag = "Stepped" /\ r.len = 0

\* resolve with the Bounded arm clamping like the Capped arm (to total - 1).
resolve_BoundedAsCapped(r, n) ==
    CASE r.tag = "All" -> r
      [] r.tag = "Bounded" -> [r EXCEPT !.min = Min2(r.min, saturating_sub(n, 1))]
      [] r.tag = "Capped" -> [r EXCEPT !.min = Min2(r.min, saturating_sub(n, 1))]
      [] r.tag = "Stepped" -> [r EXCEPT !.step = Min2(r.step, n \div r.len)]

\* resolve with the Capped arm left out (min not clamped).
resolve_CappedUnclamped(r, n) ==
    CASE r.tag = "All" -> r
      [] r.tag = "Bounded" -> [r EXCEPT !.min = Min2(r.min, saturating_sub(n, r.len))]
      [] r.tag = "Capped" -> r
      [] r.tag = "Stepped" -> [r EXCEPT !.step = Min2(r.step, n \div r.len)]

\* LayoutRange::resolve, for the inputs on which it returns.
resolve(r, n) ==
    CASE r.tag = "All" -> r
      [] r.tag = "Bounded" -> [r EXCEPT !.min = Min2(r.min, saturating_sub(n, r.len))]
      [] r.tag = "Capped" -> [r EXCEPT !.min = Min2(r.min, saturating_sub(n, 1))]
      [] r.tag = "Stepped" -> [r EXCEPT !.step = Min2(r.step, n \div r.len)]

\* to_range without the `.min(total)` cap on the end index.
to_range_Uncapped(r, n) ==
    CASE r.tag = "All" -> [start |-> 0, end |-> n]
      [] r.tag = "Bounded" -> [start |-> r.min, end |-> r.min + r.len]
      [] r.tag = "Capped" -> [start |-> r.min, end |-> r.min + r.len]
      [] r.tag = "Stepped" ->
            [start |-> r.step * r.len, end |-> r.step * r.len + r.step]

\* LayoutRange::to_range
to_range(r, n) ==
    CASE r.tag = "All" -> [start |-> 0, end |-> n]
      [] r.tag = "Bounded" -> [start |-> r.min, end |-> Min2(r.min + r.len, n)]
      [] r.tag = "Capped" -> [start |-> r.min, end |-> Min2(r.min + r.len, n)]
      [] r.tag = "Stepped" ->
            [start |-> r.step * r.len, end |-> Min2(r.step * r.len + r.step, n)]

NoWindow == [start |-> 0, end |-> 0]

\* An app with no entities, before the first tick.
EmptyWorld ==
    /\ children = <<>>
    /\ frames = <<>>
    /\ nodes = <<>>
    /\ containers = <<>>
    /\ rects = <<>>
    /\ transforms = <<>>
    /\ queue_a = <<>>
    /\ queue_b = <<>>
    /\ pc = "idle"
    /\ changed = {}
    /\ processed = <<>>
    /\ writes = <<>>
    /\ pushes = <<>>
    /\ prev = <<>>
    /\ dirty = FALSE
    /\ edits = 0

\* no single call is under test
IdleCalls ==
    /\ fnargs = <<>>
    /\ fnout = <<>>

\* no construct call is under test
IdleConstruct ==
    /\ cargs = <<>>
    /\ crect = <<>>
    /\ cpoint = <<>>
    /\ clocal = <<>>

\* no Container is under test
IdleContainer ==
    /\ cont = <<>>
    /\ cont0 = <<>>
    /\ largs = <<>>
    /\ lout = <<>>
    /\ sfac = <<>>
    /\ cop = "new"
    /\ incs = 0

InitRange ==
    /\ range \in LayoutRange
    /\ range0 = range
    /\ total \in 0..MaxTotal
    /\ window = NoWindow
    /\ rpc = "new"
    /\ nrects = <<>>
    /\ nbounds = [min |-> <<0, 0>>, max |-> <<0, 0>>]
    /\ IdleConstruct
    /\ IdleContainer
    /\ EmptyWorld
    /\ IdleCalls

\* range.resolve(total): returns with the range clamped in place.
Resolve ==
    /\ rpc = "new"
    /\ ~resolve_panics(range, total)
    /\ range' = resolve(range, total)
    /\ rpc' = "resolved"
    /\ UNCHANGED <<range0, total, window>>
    /\ UNCHANGED <<rectVars, containerVars, worldVars, walkVars, callVars>>

\* range.resolve(total): the division by zero unwinds, range untouched.
ResolvePanic ==
    /\ rpc = "new"
    /\ resolve_panics(range, total)
    /\ rpc' = "panicked"
    /\ UNCHANGED <<range, range0, total, window>>
    /\ UNCHANGED <<rectVars, containerVars, worldVars, walkVars, callVars>>

\* range.to_range(total), called after resolve as BoundsLayout::place does.
ToRange ==
    /\ rpc = "resolved"
    /\ window' = to_range(range, total)
    /\ rpc' = "ranged"
    /\ UNCHANGED <<range, range0, total>>
    /\ UNCHANGED <<rectVars, containerVars, worldVars, walkVars, callVars>>

NextRange == Resolve \/ ResolvePanic \/ ToRange

SpecRange == InitRange /\ [][NextRange]_vars

----------------------------------------------------------------------------
(* Numbers of the geometry: exact fractions and integer vectors            *)

Abs(a) == IF a < 0 THEN -a ELSE a

RECURSIVE Gcd(_, _)
Gcd(a, b) == IF b = 0 THEN a ELSE Gcd(b, a % b)

\* An f32 fraction n/d in lowest terms; 0/0 is NaN, +-1/0 is +-infinity.
Frac(n, d) ==
    IF d = 0 THEN [n |-> IF n > 0 THEN 1 ELSE IF n < 0 THEN -1 ELSE 0, d |-> 0]
    ELSE LET g == Gcd(Abs(n), Abs(d))
             sg == IF d < 0 THEN -1 ELSE 1
         IN [n |-> sg * (n \div g), d |-> sg * (d \div g)]

\* f32::is_nan
is_nan(f) == f.d = 0 /\ f.n = 0

FMul(a, b) == Frac(a.n * b.n, a.d * b.d)

FSub(a, b) == Frac(a.n * b.d - b.n * a.d, a.d * b.d)

FNeg(a) == [n |-> -a.n, d |-> a.d]

\* f32 product of a whole length and a finite fraction (exact in the model:
\* the lengths used are multiples of the denominators that occur).
Scaled(v, f) == (v * f.n) \div f.d

\* Vec2 of fractions (anchors, the padding factor): <<fx, fy>>.
FVec(nx, ny, d) == <<Frac(nx, d), Frac(ny, d)>>

FVecMul(a, b) == <<FMul(a[1], b[1]), FMul(a[2], b[2])>>

FVecSub(a, b) == <<FSub(a[1], b[1]), FSub(a[2], b[2])>>

FVecNeg(a) == <<FNeg(a[1]), FNeg(a[2])>>

\* Vec2 of whole lengths: <<x, y>>.
VAdd(a, b) == <<a[1] + b[1], a[2] + b[2]>>

VSub(a, b) == <<a[1] - b[1], a[2] - b[2]>>

VMul(a, b) == <<a[1] * b[1], a[2] * b[2]>>

VMin(a, b) == <<Min2(a[1], b[1]), Min2(a[2], b[2])>>

VMax(a, b) == <<Max2(a[1], b[1]), Max2(a[2], b[2])>>

\* Vec2 * Anchor (and Anchor * Vec2): a length vector times a fraction vector.
VScaled(v, f) == <<Scaled(v[1], f[1]), Scaled(v[2], f[2])>>

\* Vec2::from_angle(k quarter turns).rotate(v)
Rotate(v, k) ==
    CASE k % 4 = 0 -> v
      [] k % 4 = 1 -> <<-v[2], v[1]>>
      [] k % 4 = 2 -> <<-v[1], -v[2]>>
      [] k % 4 = 3 -> <<v[2], -v[1]>>

\* Option<T>
None == <<>>

Some(v) == <<v>>

unwrap_or(o, default) == IF o = None THEN default ELSE o[1]

\* bevy::math::Rect
Rect(min, max) == [min |-> min, max |-> max]

\* Rect::contains (inclusive on both edges)
contains(r, p) ==
    /\ p[1] >= r.min[1] /\ p[2] >= r.min[2]
    /\ p[1] <= r.max[1] /\ p[2] <= r.max[2]

\* Rect::size
size(r) == VSub(r.max, r.min)

----------------------------------------------------------------------------
(* Anchor (rect.rs)                                                        *)

INHERIT == <<Frac(0, 0), Frac(0, 0)>>

BOTTOM_LEFT == FVec(-1, -1, 2)

BOTTOM_CENTER == FVec(0, -1, 2)

BOTTOM_RIGHT == FVec(1, -1, 2)

CENTER_LEFT == FVec(-1, 0, 2)

CENTER == FVec(0, 0, 2)

CENTER_RIGHT == FVec(1, 0, 2)

TOP_LEFT == FVec(-1, 1, 2)

TOP_CENTER == FVec(0, 1, 2)

TOP_RIGHT == FVec(1, 1, 2)

Presets ==
    {BOTTOM_LEFT, BOTTOM_CENTER, BOTTOM_RIGHT, CENTER_LEFT, CENTER,
     CENTER_RIGHT, TOP_LEFT, TOP_CENTER, TOP_RIGHT}

\* Anchor::is_inherit
is_inherit(a) == is_nan(a[1])

\* Anchor::or
or(a, other) == IF is_inherit(a) THEN other ELSE a

----------------------------------------------------------------------------
(* Transform2D (transform.rs)                                              *)

\* Transform2D::get_center
get_center(t) == or(t.center, t.anchor)

\* Transform2D::get_parent_anchor
get_parent_anchor(t) == or(t.parent_anchor, t.anchor)

\* Transform2D::IDENTITY
IDENTITY2D ==
    [anchor |-> CENTER, parent_anchor |-> INHERIT, center |-> CENTER,
     offset |-> <<0, 0>>, z |-> 0, rotation |-> 0, scale |-> <<1, 1>>]

----------------------------------------------------------------------------
(* Transform2 and RotatedRect (rect.rs)                                    *)

\* Transform2::IDENTITY
IDENTITY == [translation |-> <<0, 0>>, rotation |-> 0, scale |-> <<1, 1>>]

\* Transform2::transform_point2
transform_point2(t, point) ==
    VAdd(VMul(Rotate(point, t.rotation), t.scale), t.translation)

\* Transform2::mul
mul(t, other) ==
    [translation |-> transform_point2(t, other.translation),
     rotation |-> t.rotation + other.rotation,
     scale |-> VMul(t.scale, other.scale)]

\* ParentInfo::with_anchor
with_anchor(info, anc) == [info EXCEPT !.anchor = Some(anc)]

\* RotatedRect::anchor
anchor(r, a) == VAdd(Rotate(VScaled(r.dimension, a), r.rotation), r.center)

\* local_space rotating by +rotation instead of -rotation
local_space_SameTurn(r, position) == Rotate(VSub(position, r.center), r.rotation)

\* RotatedRect::local_space
local_space(r, position) == Rotate(VSub(position, r.center), 4 - (r.rotation % 4))

\* RotatedRect::transform2_at
transform2_at(r, center) ==
    [translation |-> anchor(r, FVecNeg(center)),
     rotation |-> r.rotation,
     scale |-> r.scale]

\* RotatedRect::transform_at (the bevy Transform written for the node)
transform_at(r, center) ==
    [translation |-> anchor(r, FVecNeg(center)) \o <<r.z>>,
     rotation |-> r.rotation,
     scale |-> r.scale \o <<1>>]

\* RotatedRect::under_transform2
under_transform2(r, t) ==
    [r EXCEPT !.center = transform_point2(t, r.center),
              !.rotation = r.rotation + t.rotation,
              !.scale = VMul(r.scale, t.scale)]

\* RotatedRect::construct2
construct2(parent, transform, parent_anchor, anc, dimension, frame) ==
    LET root == VScaled(parent.dimension, parent_anchor)
        self_center ==
            VAdd(VAdd(root, transform.offset),
                 VScaled(dimension, FVecSub(get_center(transform), anc)))
    IN [center |-> self_center,
        dimension |-> dimension,
        z |-> transform.z,
        rotation |-> transform.rotation,
        scale |-> transform.scale,
        frame_entity |-> Some(frame)]

\* construct always taking the node's own parent anchor
construct_OwnAnchor(parent, transform, dimension, frame) ==
    LET parent_anchor == get_parent_anchor(transform)
        anc == transform.anchor
    IN construct2(parent, transform, parent_anchor, anc, dimension, frame)

\* RotatedRect::construct
construct(parent, transform, dimension, frame) ==
    LET parent_anchor == unwrap_or(parent.anchor, get_parent_anchor(transform))
        anc == transform.anchor
    IN construct2(parent, transform, parent_anchor, anc, dimension, frame)

\* RotatedRect::aabb
aabb(r) ==
    LET bl == anchor(r, BOTTOM_LEFT)
        tr == VSub(VMul(r.center, <<2, 2>>), bl)
    IN Rect(VMin(bl, tr), VMax(bl, tr))

\* RotatedRect::is_inside
is_inside(r, rect) ==
    LET bl == anchor(r, BOTTOM_LEFT)
        tr == VSub(VMul(r.center, <<2, 2>>), bl)
    IN contains(rect, bl) /\ contains(rect, tr)

\* nudge_aabb_with with the y test chained to the x tests by `else if`:
\* y is corrected only when x needed no correction.
nudge_aabb_with_Chained(output, box, bounds) ==
    IF box.min[1] < bounds.min[1]
        THEN <<output[1] + (bounds.min[1] - box.min[1]), output[2]>>
    ELSE IF box.max[1] > bounds.max[1]
        THEN <<output[1] - (box.max[1] - bounds.max[1]), output[2]>>
    ELSE IF box.min[2] < bounds.min[2]
        THEN <<output[1], output[2] + (bounds.min[2] - box.min[2])>>
    ELSE IF box.max[2] > bounds.max[2]
        THEN <<output[1], output[2] - (box.max[2] - bounds.max[2])>>
    ELSE output

\* nudge_aabb_with: the new value of `output`
nudge_aabb_with(output, box, bounds) ==
    LET x == IF box.min[1] < bounds.min[1]
                 THEN output[1] + (bounds.min[1] - box.min[1])
             ELSE IF box.max[1] > bounds.max[1]
                 THEN output[1] - (box.max[1] - bounds.max[1])
             ELSE output[1]
        y == IF box.min[2] < bounds.min[2]
                 THEN output[2] + (bounds.min[2] - box.min[2])
             ELSE IF box.max[2] > bounds.max[2]
                 THEN output[2] - (box.max[2] - bounds.max[2])
             ELSE output[2]
    IN <<x, y>>

\* aabb.size().cmpgt(bounds.size()).any()
larger_than(box, bounds) ==
    \/ size(box)[1] > size(bounds)[1]
    \/ size(box)[2] > size(bounds)[2]

\* RotatedRect::nudge_inside: the rect after the call
nudge_inside(r, bounds) ==
    LET box == aabb(r)
    IN IF larger_than(box, bounds) THEN r
       ELSE [r EXCEPT !.center = nudge_aabb_with(r.center, box, bounds)]

\* RotatedRect::nudge_inside_ext: the new value of `value`
nudge_inside_ext(r, bounds, value) ==
    LET box == aabb(r)
    IN IF larger_than(box, bounds) THEN value
       ELSE nudge_aabb_with(value, box, bounds)

\* RotatedRect::default()
DefaultRect ==
    [center |-> <<0, 0>>, dimension |-> <<0, 0>>, z |-> 0, rotation |-> 0,
     scale |-> <<0, 0>>, frame_entity |-> None]

\* RectrayFrame::rect
frame_rect_of(f) ==
    LET c == VScaled(f.dimension, FVecNeg(f.at))
        half == <<f.dimension[1] \div 2, f.dimension[2] \div 2>>
    IN Rect(VSub(c, half), VAdd(c, half))

----------------------------------------------------------------------------
(* RotatedRect::nudge_inside applied to free-standing rects                *)

MaxNudges == 2

NudgeCenters == {-6, -3, 0, 3, 6}

InitNudgeInside ==
    /\ \E cx \in NudgeCenters, cy \in NudgeCenters,
          dim \in {<<2, 2>>, <<4, 2>>, <<12, 2>>},
          rot \in 0..1 :
          nrects = <<[center |-> <<cx, cy>>, dimension |-> dim, z |-> 0,
                      rotation |-> rot, scale |-> <<1, 1>>,
                      frame_entity |-> None]>>
    /\ nbounds \in {Rect(<<-4, -4>>, <<4, 4>>), Rect(<<0, 0>>, <<6, 8>>)}
    /\ range = RangeAll
    /\ range0 = RangeAll
    /\ total = 0
    /\ window = NoWindow
    /\ rpc = "new"
    /\ IdleConstruct
    /\ IdleContainer
    /\ EmptyWorld
    /\ IdleCalls

\* rect.nudge_inside(bounds)
NudgeInside ==
    /\ nrects # <<>>
    /\ Len(nrects) <= MaxNudges
    /\ nrects' = Append(nrects, nudge_inside(nrects[Len(nrects)], nbounds))
    /\ UNCHANGED <<nbounds, constructVars, containerVars, rangeVars, worldVars,
                   walkVars, callVars>>

SpecNudgeInside == InitNudgeInside /\ [][NudgeInside]_vars

(* RotatedRect::construct, anchor and local_space on free-standing input   *)

\* a ParentInfo as propagate hands it down, with or without an anchor
\* forced by the parent's layout
ParentOf(dim, forced) ==
    [dimension |-> dim, center |-> CENTER, anchor |-> forced,
     affine |-> IDENTITY, frame |-> 0,
     frame_rect |-> Rect(<<-dim[1], -dim[2]>>, dim)]

InitConstruct ==
    /\ \E forced \in {None, Some(TOP_LEFT)},
          a \in {CENTER, TOP_LEFT, BOTTOM_RIGHT},
          pa \in {INHERIT, CENTER, TOP_RIGHT},
          c \in {CENTER, INHERIT, BOTTOM_LEFT},
          off \in {<<0, 0>>, <<3, -1>>},
          rot \in 0..3,
          dim \in {<<4, 2>>, <<2, 6>>},
          probe \in {BOTTOM_LEFT, CENTER, TOP_LEFT, CENTER_RIGHT} :
          cargs = [parent |-> ParentOf(<<8, 4>>, forced),
                   transform |-> [IDENTITY2D EXCEPT !.anchor = a,
                                                    !.parent_anchor = pa,
                                                    !.center = c,
                                                    !.offset = off,
                                                    !.rotation = rot],
                   dimension |-> dim,
                   probe |-> probe]
    /\ crect = None
    /\ cpoint = None
    /\ clocal = None
    /\ IdleContainer
    /\ nrects = <<>>
    /\ nbounds = Rect(<<0, 0>>, <<0, 0>>)
    /\ range = RangeAll
    /\ range0 = RangeAll
    /\ total = 0
    /\ window = NoWindow
    /\ rpc = "new"
    /\ EmptyWorld
    /\ IdleCalls

\* RotatedRect::construct(&parent, &transform, dimension, frame)
Construct ==
    /\ crect = None
    /\ crect' = Some(construct(cargs.parent, cargs.transform, cargs.dimension,
                               cargs.parent.frame))
    /\ UNCHANGED <<cargs, cpoint, clocal, nrects, nbounds>>
    /\ UNCHANGED <<rangeVars, containerVars, worldVars, walkVars, callVars>>

\* rect.anchor(probe)
AnchorOf ==
    /\ crect # None
    /\ cpoint = None
    /\ cpoint' = Some(anchor(crect[1], cargs.probe))
    /\ UNCHANGED <<cargs, crect, clocal, nrects, nbounds>>
    /\ UNCHANGED <<rangeVars, containerVars, worldVars, walkVars, callVars>>

\* rect.local_space(position) on the point anchor returned
LocalSpace ==
    /\ cpoint # None
    /\ clocal = None
    /\ clocal' = Some(local_space(crect[1], cpoint[1]))
    /\ UNCHANGED <<cargs, crect, cpoint, nrects, nbounds>>
    /\ UNCHANGED <<rangeVars, containerVars, worldVars, walkVars, callVars>>

NextConstruct == Construct \/ AnchorOf \/ LocalSpace

SpecConstruct == InitConstruct /\ [][NextConstruct]_vars

----------------------------------------------------------------------------
(* AnchorDirection and OutOfFrameBehavior (tooltip.rs)                     *)

AnchorDirection == {"B", "L", "T", "R", "BL", "LB", "BR", "RB", "TL", "LT", "TR", "RT"}

\* AnchorDirection::to_parent_anchor
to_parent_anchor(d) ==
    CASE d = "B" -> BOTTOM_CENTER
      [] d = "L" -> CENTER_LEFT
      [] d = "T" -> TOP_CENTER
      [] d = "R" -> CENTER_RIGHT
      [] d = "BL" -> BOTTOM_RIGHT
      [] d = "LB" -> TOP_LEFT
      [] d = "BR" -> BOTTOM_LEFT
      [] d = "RB" -> TOP_RIGHT
      [] d = "TL" -> TOP_RIGHT
      [] d = "LT" -> BOTTOM_LEFT
      [] d = "TR" -> TOP_LEFT
      [] d = "RT" -> BOTTOM_RIGHT

\* AnchorDirection::to_anchor
to_anchor(d) ==
    CASE d = "B" -> TOP_CENTER
      [] d = "L" -> CENTER_RIGHT
      [] d = "T" -> BOTTOM_CENTER
      [] d = "R" -> CENTER_LEFT
      [] d = "BL" -> TOP_RIGHT
      [] d = "LB" -> TOP_RIGHT
      [] d = "BR" -> TOP_LEFT
      [] d = "RB" -> TOP_LEFT
      [] d = "TL" -> BOTTOM_RIGHT
      [] d = "LT" -> BOTTOM_RIGHT
      [] d = "TR" -> BOTTOM_LEFT
      [] d = "RT" -> BOTTOM_LEFT

BehaviorNone == [tag |-> "None", choices |-> <<"B", "B", "B", "B">>, len |-> 0]

BehaviorNudge == [tag |-> "Nudge", choices |-> <<"B", "B", "B", "B">>, len |-> 0]

\* OutOfFrameBehavior::anchor_swap
anchor_swap(directions) ==
    [tag |-> "AnchorSwap",
     choices |-> [i \in 1..4 |-> IF i <= Len(directions) THEN directions[i] ELSE "B"],
     len |-> Min2(4, Len(directions))]

\* OutOfFrameBehavior::iter_anchor_swaps
iter_anchor_swaps(b) ==
    IF b.tag = "AnchorSwap" THEN SubSeq(b.choices, 1, b.len) ELSE <<>>

----------------------------------------------------------------------------
(* Layout (layout/layouts.rs): the Bounds layout                           *)

\* f32::MAX
F32_MAX == 1000000

\* BoundsLayout::PADDING
PADDING ==
    [fixed |-> <<FALSE, FALSE>>, min |-> <<0, 0>>, max |-> <<F32_MAX, F32_MAX>>]

\* Vec2::clamp(min, max) = self.max(min).min(max)
clamp(v, min, max) == VMin(VMax(v, min), max)

RECURSIVE max_dimension(_)
\* the fold `max_dim = max_dim.max(x.dimension)` over the windowed items
max_dimension(items) ==
    IF items = <<>> THEN <<0, 0>>
    ELSE VMax(max_dimension(SubSeq(items, 1, Len(items) - 1)),
              items[Len(items)].dimension)

\* place handing back one item past the end of the range window
place_OneMore(layout, info, entities, r) ==
    LET resolved == resolve(r, Len(entities))
        w == to_range(resolved, Len(entities))
        shown == SubSeq(entities, w.start + 1, Min2(w.end + 1, Len(entities)))
        dim == clamp(max_dimension(shown), layout.min, layout.max)
    IN [entity_anchors |->
            [i \in 1..Len(shown) |->
                [entity |-> shown[i].entity, anchor |-> shown[i].anchor]],
        dimension |->
            <<IF ~layout.fixed[1] THEN dim[1] ELSE info.dimension[1],
              IF ~layout.fixed[2] THEN dim[2] ELSE info.dimension[2]>>,
        max_count |-> Len(entities),
        range |-> resolved]

\* place counting only the items inside the range window
place_CountShown(layout, info, entities, r) ==
    LET resolved == resolve(r, Len(entities))
        w == to_range(resolved, Len(entities))
        shown == SubSeq(entities, w.start + 1, w.end)
        dim == clamp(max_dimension(shown), layout.min, layout.max)
    IN [entity_anchors |->
            [i \in 1..Len(shown) |->
                [entity |-> shown[i].entity, anchor |-> shown[i].anchor]],
        dimension |->
            <<IF ~layout.fixed[1] THEN dim[1] ELSE info.dimension[1],
              IF ~layout.fixed[2] THEN dim[2] ELSE info.dimension[2]>>,
        max_count |-> Len(shown),
        range |-> resolved]

\* place handing back every item, whatever the range window
place_WholeList(layout, info, entities, r) ==
    LET resolved == resolve(r, Len(entities))
        shown == entities
        dim == clamp(max_dimension(shown), layout.min, layout.max)
    IN [entity_anchors |->
            [i \in 1..Len(shown) |->
                [entity |-> shown[i].entity, anchor |-> shown[i].anchor]],
        dimension |->
            <<IF ~layout.fixed[1] THEN dim[1] ELSE info.dimension[1],
              IF ~layout.fixed[2] THEN dim[2] ELSE info.dimension[2]>>,
        max_count |-> Len(entities),
        range |-> resolved]

\* <BoundsLayout as Layout>::place, for the inputs on which resolve
\* returns: the LayoutOutput and the range as left in the Container.
place(layout, info, entities, r) ==
    LET resolved == resolve(r, Len(entities))
        w == to_range(resolved, Len(entities))
        shown == SubSeq(entities, w.start + 1, w.end)
        dim == clamp(max_dimension(shown), layout.min, layout.max)
    IN [entity_anchors |->
            [i \in 1..Len(shown) |->
                [entity |-> shown[i].entity, anchor |-> shown[i].anchor]],
        dimension |->
            <<IF ~layout.fixed[1] THEN dim[1] ELSE info.dimension[1],
              IF ~layout.fixed[2] THEN dim[2] ELSE info.dimension[2]>>,
        max_count |-> Len(entities),
        range |-> resolved]

\* all sequences over S of length at most n
SeqsUpTo(S, n) == UNION {[1..k -> S] : k \in 0..n}

\* BoundsLayout::from_max
from_max(max) == [fixed |-> <<FALSE, FALSE>>, min |-> <<F32_MAX, F32_MAX>>, max |-> max]

\* BoundsLayout::x_bounds
x_bounds(min, max) == [fixed |-> <<FALSE, TRUE>>, min |-> <<min, min>>, max |-> <<max, max>>]

\* BoundsLayout::y_bounds
y_bounds(min, max) == [fixed |-> <<TRUE, FALSE>>, min |-> <<min, min>>, max |-> <<max, max>>]

----------------------------------------------------------------------------
(* Container (layout/container.rs) on its own: scroll factor, stepping,    *)
(* and the placement of a tick                                             *)

\* f32::clamp(0.0, 1.0) of a fraction that is not NaN
clamp01(f) ==
    IF f.n < 0 THEN Frac(0, 1) ELSE IF f.n > f.d THEN Frac(1, 1) ELSE f

\* `self.maximum / len` divides by zero in get_fac and set_fac
fac_panics(c) == c.range.tag = "Stepped" /\ c.range.len = 0

\* Container::get_fac
get_fac(c) ==
    LET r == c.range
    IN clamp01(
        CASE r.tag = "All" -> Frac(0, 1)
          [] r.tag = "Bounded" ->
                IF c.maximum <= r.len THEN Frac(0, 1)
                ELSE Frac(r.min, c.maximum - r.len)
          [] r.tag = "Capped" ->
                IF c.maximum = 0 THEN Frac(0, 1) ELSE Frac(r.min, c.maximum)
          [] r.tag = "Stepped" ->
                LET count == c.maximum \div r.len
                IN IF count = 0 THEN Frac(0, 1) ELSE Frac(r.step, count))

\* `(x as f32 * fac) as usize`: the product of a count and a factor in
\* [0,1], truncated
truncated(x, fac) == (x * fac.n) \div fac.d

\* Container::set_fac
set_fac(c, f) ==
    LET r == c.range
        fac == clamp01(f)
    IN CASE r.tag = "All" -> c
         [] r.tag = "Bounded" ->
               IF c.maximum > r.len
               THEN [c EXCEPT !.range.min = truncated(c.maximum - r.len, fac)]
               ELSE [c EXCEPT !.range.min = 0]
         [] r.tag = "Capped" ->
               IF c.maximum = 0
               THEN [c EXCEPT !.range.min = 0]
               ELSE [c EXCEPT !.range.min = truncated(c.maximum, fac)]
         [] r.tag = "Stepped" ->
               LET count == c.maximum \div r.len
               IN IF count = 0
                  THEN [c EXCEPT !.range.step = 0]
                  ELSE [c EXCEPT !.range.step = truncated(count, fac)]

\* decrement with a plain `- 1`
decrement_Unsaturated(c) ==
    CASE c.range.tag = "All" -> c
      [] c.range.tag \in {"Bounded", "Capped"} ->
            [c EXCEPT !.range.min = c.range.min - 1]
      [] c.range.tag = "Stepped" ->
            [c EXCEPT !.range.step = c.range.step - 1]

\* Container::decrement
decrement(c) ==
    CASE c.range.tag = "All" -> c
      [] c.range.tag \in {"Bounded", "Capped"} ->
            [c EXCEPT !.range.min = saturating_sub(c.range.min, 1)]
      [] c.range.tag = "Stepped" ->
            [c EXCEPT !.range.step = saturating_sub(c.range.step, 1)]

\* Container::increment
increment(c) ==
    CASE c.range.tag = "All" -> c
      [] c.range.tag \in {"Bounded", "Capped"} ->
            [c EXCEPT !.range.min = c.range.min + 1]
      [] c.range.tag = "Stepped" ->
            [c EXCEPT !.range.step = c.range.step + 1]

MaxItems == 3

MaxIncs == 2

\* the Dimensions of the laid-out children
ItemDimensions == {<<2, 4>>, <<6, 2>>}

\* the parent anchors of the laid-out children, by position
ItemAnchors == <<TOP_LEFT, CENTER, BOTTOM_RIGHT, CENTER_LEFT>>

\* the BoundsLayout values under test
BoundsLayouts ==
    {PADDING, from_max(<<4, 4>>), x_bounds(3, 5), y_bounds(3, 5)}

\* the scroll factors passed to set_fac
Facs == {Frac(0, 1), Frac(1, 4), Frac(1, 2), Frac(3, 4), Frac(1, 1)}

InitContainer ==
    /\ \E l \in BoundsLayouts, r \in LayoutRange :
          cont = [layout |-> l, margin |-> <<0, 0>>, padding |-> <<0, 0>>,
                  range |-> r, maximum |-> 0]
    /\ \E dims \in SeqsUpTo(ItemDimensions, MaxItems) :
          largs = [info |-> [dimension |-> <<10, 10>>, margin |-> <<0, 0>>],
                   entities |->
                       [i \in 1..Len(dims) |->
                           [entity |-> i,
                            anchor |-> ItemAnchors[((i - 1) % 4) + 1],
                            dimension |-> dims[i],
                            control |-> "None"]]]
    /\ cont0 = cont
    /\ lout = None
    /\ sfac = None
    /\ cop = "new"
    /\ incs = 0
    /\ IdleConstruct
    /\ nrects = <<>>
    /\ nbounds = Rect(<<0, 0>>, <<0, 0>>)
    /\ range = RangeAll
    /\ range0 = RangeAll
    /\ total = 0
    /\ window = NoWindow
    /\ rpc = "new"
    /\ EmptyWorld
    /\ IdleCalls

\* container.set_fac(f)
SetFac ==
    /\ cop # "panicked"
    /\ \E f \in Facs :
          IF fac_panics(cont)
          THEN cop' = "panicked" /\ UNCHANGED <<cont, sfac>>
          ELSE cont' = set_fac(cont, f) /\ sfac' = Some(f) /\ cop' = "set_fac"
    /\ cont0' = cont
    /\ incs' = IF cop = "place" THEN 0 ELSE incs
    /\ UNCHANGED <<largs, lout>>
    /\ UNCHANGED <<rangeVars, rectVars, worldVars, walkVars, callVars>>

\* container.get_fac()
GetFac ==
    /\ cop # "panicked"
    /\ IF fac_panics(cont)
       THEN cop' = "panicked" /\ UNCHANGED sfac
       ELSE sfac' = Some(get_fac(cont)) /\ cop' = "get_fac"
    /\ cont0' = cont
    /\ incs' = IF cop = "place" THEN 0 ELSE incs
    /\ UNCHANGED <<cont, largs, lout>>
    /\ UNCHANGED <<rangeVars, rectVars, worldVars, walkVars, callVars>>

\* container.increment()
Increment ==
    /\ cop # "panicked"
    /\ cop = "place" \/ incs < MaxIncs
    /\ cont' = increment(cont)
    /\ cont0' = cont
    /\ cop' = "increment"
    /\ incs' = IF cop = "place" THEN 1 ELSE incs + 1
    /\ sfac' = None
    /\ UNCHANGED <<largs, lout>>
    /\ UNCHANGED <<rangeVars, rectVars, worldVars, walkVars, callVars>>

\* container.decrement()
Decrement ==
    /\ cop # "panicked"
    /\ cont' = decrement(cont)
    /\ cont0' = cont
    /\ cop' = "decrement"
    /\ sfac' = None
    /\ incs' = IF cop = "place" THEN 0 ELSE incs
    /\ UNCHANGED <<largs, lout>>
    /\ UNCHANGED <<rangeVars, rectVars, worldVars, walkVars, callVars>>

\* one tick of the pipeline on the container: `layout.place(..)` through
\* Container::place, then `layout.maximum = max_count`
PlaceTick ==
    /\ cop # "panicked"
    /\ cont0' = cont
    /\ sfac' = None
    /\ incs' = IF cop = "place" THEN 0 ELSE incs
    /\ IF resolve_panics(cont.range, Len(largs.entities))
       THEN cop' = "panicked" /\ UNCHANGED <<cont, lout>>
       ELSE LET placed == place(cont.layout, largs.info, largs.entities, cont.range)
            IN /\ lout' = Some([entity_anchors |-> placed.entity_anchors,
                                dimension |-> placed.dimension,
                                max_count |-> placed.max_count])
               /\ cont' = [cont EXCEPT !.range = placed.range,
                                       !.maximum = placed.max_count]
               /\ cop' = "place"
    /\ UNCHANGED largs
    /\ UNCHANGED <<rangeVars, rectVars, worldVars, walkVars, callVars>>

NextContainer == SetFac \/ GetFac \/ Increment \/ Decrement \/ PlaceTick

SpecContainer == InitContainer /\ [][NextContainer]_vars

----------------------------------------------------------------------------
(* The walker (pipeline.rs)                                                *)

\* `queue.push((child, info))`
Entry(e, info) == [entity |-> e, parent |-> info]

\* one AnchorSwap trial: construct2 with the candidate's anchors
swap_rect(parent, transform, dimension, d) ==
    construct2(parent, transform, to_parent_anchor(d), to_anchor(d),
               dimension, parent.frame)

RECURSIVE swap_loop_NoBreak(_, _, _, _, _)
\* the candidate loop without `break`: the last fitting candidate wins
swap_loop_NoBreak(parent, transform, dimension, swaps, result) ==
    IF swaps = <<>> THEN result
    ELSE LET rect == swap_rect(parent, transform, dimension, Head(swaps))
             frame_space_rect == under_transform2(rect, parent.affine)
         IN swap_loop_NoBreak(parent, transform, dimension, Tail(swaps),
                IF is_inside(frame_space_rect, parent.frame_rect)
                   THEN rect ELSE result)

RECURSIVE swap_loop_OwnFirst(_, _, _, _, _)
\* the candidate loop with the node's own pair tested before the list
swap_loop_OwnFirst(parent, transform, dimension, swaps, result) ==
    IF is_inside(under_transform2(result, parent.affine), parent.frame_rect)
       \/ swaps = <<>>
    THEN result
    ELSE LET rect == swap_rect(parent, transform, dimension, Head(swaps))
             frame_space_rect == under_transform2(rect, parent.affine)
         IN IF is_inside(frame_space_rect, parent.frame_rect)
               THEN rect
               ELSE swap_loop_OwnFirst(parent, transform, dimension, Tail(swaps), result)

RECURSIVE swap_loop(_, _, _, _, _)
\* `for anchor in behavior.iter_anchor_swaps() { .. break }`
swap_loop(parent, transform, dimension, swaps, result) ==
    IF swaps = <<>> THEN result
    ELSE LET rect == swap_rect(parent, transform, dimension, Head(swaps))
             frame_space_rect == under_transform2(rect, parent.affine)
         IN IF is_inside(frame_space_rect, parent.frame_rect)
               THEN rect
               ELSE swap_loop(parent, transform, dimension, Tail(swaps), result)

\* propagate, `let rect = match behavior { .. }`
leaf_rect(parent, transform, dimension, behavior) ==
    CASE behavior.tag = "None" ->
            construct(parent, transform, dimension, parent.frame)
      [] behavior.tag = "Nudge" ->
            LET rect == construct(parent, transform, dimension, parent.frame)
                frame_space_rect == under_transform2(rect, parent.affine)
            IN [rect EXCEPT !.center =
                    nudge_inside_ext(frame_space_rect, parent.frame_rect, rect.center)]
      [] behavior.tag = "AnchorSwap" ->
            swap_loop(parent, transform, dimension, iter_anchor_swaps(behavior),
                      construct(parent, transform, dimension, parent.frame))

\* exp_decay_interpolate with a decay of one half per tick
\* (1 - exp(-fac * dt) = 1/2); the angle is the z rotation.
exp_decay_interpolate(t, target) ==
    LET nudge(a, b) == a + ((b - a) \div 2)
    IN [translation |-> [i \in 1..3 |-> nudge(t.translation[i], target.translation[i])],
        rotation |-> nudge(t.rotation, target.rotation),
        scale |-> [i \in 1..3 |-> nudge(t.scale[i], target.scale[i])]]

\* every write smoothed from the Transform found, whatever the setting
written_transform_AlwaysDecay(old, result, interpolate) ==
    exp_decay_interpolate(old, result)

\* the match without its `_ if interpolate.is_changed()` arm
written_transform_NoSnap(old, result, interpolate) ==
    IF interpolate.mode = "None" THEN result
    ELSE exp_decay_interpolate(old, result)

\* the Transform written for a node: `match &*interpolate { .. }`
written_transform(old, result, interpolate) ==
    IF interpolate.changed \/ interpolate.mode = "None" THEN result
    ELSE exp_decay_interpolate(old, result)

\* Children of an entity as child_query sees them
children_of(e) == IF e \in DOMAIN children THEN children[e] ELSE <<>>

\* propagate, container branch: `args`, the LayoutItems handed to place
layout_items(e) ==
    LET Laid(c) == c \in DOMAIN nodes /\ nodes[c].control # "IgnoreLayout"
        cs == SelectSeq(children_of(e), Laid)
    IN [i \in 1..Len(cs) |->
           [entity |-> cs[i],
            anchor |-> get_parent_anchor(nodes[cs[i]].transform),
            dimension |-> nodes[cs[i]].dimension,
            control |-> nodes[cs[i]].control]]

\* propagate, container branch: `other_entities`
other_entities(e) ==
    LET Ignored(c) == c \in DOMAIN nodes /\ nodes[c].control = "IgnoreLayout"
    IN SelectSeq(children_of(e), Ignored)

\* `new_dim / (new_dim + padding)`
padding_fac(new_dim, padding) ==
    <<Frac(new_dim[1], new_dim[1] + padding[1]),
      Frac(new_dim[2], new_dim[2] + padding[2])>>

\* propagate, lines 105-107: the anchors the layout returned, rescaled
\* for the padding unless the factor is NaN on an axis
rescale(entity_anchors, fac) ==
    IF ~(is_nan(fac[1]) \/ is_nan(fac[2]))
    THEN [i \in 1..Len(entity_anchors) |->
            [entity_anchors[i] EXCEPT
                !.anchor = FVecMul(entity_anchors[i].anchor, fac)]]
    ELSE entity_anchors

\* propagate panics when the container's range makes resolve divide by zero
propagate_panics(e) ==
    /\ e \in DOMAIN nodes
    /\ e \in DOMAIN containers
    /\ resolve_panics(containers[e].range, Len(layout_items(e)))

\* The effect of propagate(parent, entity, ..) for an entity matched by the
\* REntity query: the entries pushed, the rect and Transform target, and
\* the Container as left behind.
propagate(parent, e) ==
    LET dimension == nodes[e].dimension
        transform == nodes[e].transform
    IN IF e \in DOMAIN containers
       THEN LET layout == containers[e]
                out == place(layout.layout,
                             [dimension |-> dimension, margin |-> layout.margin],
                             layout_items(e), layout.range)
                new_dim == out.dimension
                padding == VMul(layout.padding, <<2, 2>>)
                fac == padding_fac(new_dim, padding)
                sz == VAdd(new_dim, padding)
                entity_anchors == rescale(out.entity_anchors, fac)
                rect == construct(parent, transform, sz, parent.frame)
                info == [dimension |-> new_dim,
                         center |-> get_center(transform),
                         anchor |-> None,
                         affine |-> mul(parent.affine,
                                        transform2_at(rect, get_center(transform))),
                         frame |-> parent.frame,
                         frame_rect |-> parent.frame_rect]
                others == other_entities(e)
            IN [queue |->
                    [i \in 1..Len(entity_anchors) |->
                        Entry(entity_anchors[i].entity,
                              with_anchor(info, entity_anchors[i].anchor))]
                    \o [i \in 1..Len(others) |-> Entry(others[i], info)],
                rect |-> rect,
                container |-> [layout EXCEPT !.range = out.range,
                                             !.maximum = out.max_count]]
       ELSE LET rect == leaf_rect(parent, transform, dimension, nodes[e].behavior)
                info == [dimension |-> dimension,
                         anchor |-> None,
                         center |-> get_center(transform),
                         affine |-> mul(parent.affine,
                                        transform2_at(rect, get_center(transform))),
                         frame |-> parent.frame,
                         frame_rect |-> parent.frame_rect]
                cs == children_of(e)
            IN [queue |-> [i \in 1..Len(cs) |-> Entry(cs[i], info)],
                rect |-> rect,
                container |-> None]

\* propagate on an entity the REntity query does not match, with the
\* children still walked under the ParentInfo the entity was given
unmatched_PassThrough(parent, e) ==
    [i \in 1..Len(children_of(e)) |-> Entry(children_of(e)[i], parent)]

\* propagate on an entity the REntity query does not match
\* (`if !mut_query.contains(entity) { return; }`): the entries pushed
unmatched(parent, e) == <<>>

\* the seeds of a Frame carrying the rect() of another Frame, if there is one
seed_of_OtherFrameRect(f) ==
    LET g == IF DOMAIN frames = {f} THEN f
             ELSE CHOOSE h \in DOMAIN frames : h # f
    IN [i \in 1..Len(children_of(f)) |->
           Entry(children_of(f)[i],
                 [dimension |-> frames[f].dimension,
                  center |-> frames[f].at,
                  anchor |-> None,
                  affine |-> IDENTITY,
                  frame |-> f,
                  frame_rect |-> frame_rect_of(frames[g])])]

\* compute_transform_2d, lines 215-229: the entries seeded for one Frame
seed_of(f) ==
    [i \in 1..Len(children_of(f)) |->
        Entry(children_of(f)[i],
              [dimension |-> frames[f].dimension,
               center |-> frames[f].at,
               anchor |-> None,
               affine |-> IDENTITY,
               frame |-> f,
               frame_rect |-> frame_rect_of(frames[f])])]

\* every Frame's children seeded under the ParentInfo of the Frame that
\* root_query yields first
seed_all_FirstInfo(order) ==
    LET entries == [i \in 1..Len(order) |->
                       [j \in 1..Len(children_of(order[i])) |->
                           Entry(children_of(order[i])[j],
                                 seed_of(order[1])[1].parent)]]
    IN IF order = <<>> THEN <<>>
       ELSE IF Len(order) = 1 THEN entries[1]
       ELSE entries[1] \o entries[2]

\* compute_transform_2d, lines 215-229: the seeds of all Frames
RECURSIVE seed_all(_)
seed_all(order) ==
    IF order = <<>> THEN <<>> ELSE seed_of(Head(order)) \o seed_all(Tail(order))

\* the orders in which root_query.iter() may yield the Frames
RootOrders ==
    LET roots == {f \in DOMAIN frames : children_of(f) # <<>>}
    IN {o \in [1..Cardinality(roots) -> roots] :
            \A i, j \in 1..Cardinality(roots) : i # j => o[i] # o[j]}

\* compute_transform_2d is entered: every Frame's children are pushed.
Seed ==
    /\ pc = "idle"
    /\ \E order \in RootOrders :
          /\ queue_a' = queue_a \o seed_all(order)
          /\ prev' = [rects |-> rects, transforms |-> transforms,
                      containers |-> containers, changed |-> changed,
                      repeat |-> prev # <<>> /\ ~dirty,
                      order |-> order,
                      last_order |-> IF prev = <<>> THEN <<>> ELSE prev.order]
    /\ pc' = "loop"
    /\ processed' = <<>>
    /\ writes' = <<>>
    /\ pushes' = <<>>
    /\ dirty' = FALSE
    /\ UNCHANGED <<containers, rects, transforms, queue_b, changed, edits>>
    /\ UNCHANGED <<rangeVars, rectVars, containerVars, worldVars, callVars>>

\* `while !queue_a.is_empty() { mem::swap(queue_a, queue_b); ..`
SwapQueues ==
    /\ pc = "loop"
    /\ queue_a # <<>>
    /\ queue_a' = queue_b
    /\ queue_b' = queue_a
    /\ pc' = "drain"
    /\ UNCHANGED <<containers, rects, transforms, processed, writes, pushes>>
    /\ UNCHANGED <<changed, prev, dirty, edits>>
    /\ UNCHANGED <<rangeVars, rectVars, containerVars, worldVars, callVars>>

\* the entries pushed go to the front of the queue being drained
after_iteration_SameQueue(qa, qb, pushed) ==
    [queue_a |-> qa, queue_b |-> pushed \o Tail(qb)]

\* the two queues after one iteration of the drain loop: the entry at the
\* head of queue_b is consumed, what propagate pushed is appended to queue_a
after_iteration(qa, qb, pushed) ==
    [queue_a |-> qa \o pushed, queue_b |-> Tail(qb)]

\* one iteration of `for (entity, parent) in queue_b.drain(..)`: the whole
\* propagate call on the entry at the head of queue_b.
Propagate ==
    /\ pc = "drain"
    /\ queue_b # <<>>
    /\ LET e == Head(queue_b).entity
           parent == Head(queue_b).parent
       IN /\ processed' = Append(processed, Head(queue_b))
          /\ IF e \notin DOMAIN nodes
             THEN \* `if !mut_query.contains(entity) { return; }`
                  LET after == after_iteration(queue_a, queue_b,
                                               unmatched(parent, e))
                  IN
                  /\ pc' = IF after.queue_b = <<>> THEN "loop" ELSE "drain"
                  /\ queue_a' = after.queue_a
                  /\ queue_b' = after.queue_b
                  /\ pushes' = pushes \o
                         [i \in 1..Len(unmatched(parent, e)) |->
                             <<e, unmatched(parent, e)[i].entity>>]
                  /\ UNCHANGED <<containers, rects, transforms, writes>>
             ELSE IF propagate_panics(e)
             THEN /\ pc' = "panicked"
                  /\ queue_b' = Tail(queue_b)
                  /\ UNCHANGED <<containers, rects, transforms, queue_a, writes, pushes>>
             ELSE LET p == propagate(parent, e)
                      result == transform_at(p.rect, get_center(nodes[e].transform))
                      after == after_iteration(queue_a, queue_b, p.queue)
                  IN /\ pc' = IF after.queue_b = <<>> THEN "loop" ELSE "drain"
                     /\ queue_a' = after.queue_a
                     /\ queue_b' = after.queue_b
                     /\ pushes' = pushes \o
                            [i \in 1..Len(p.queue) |-> <<e, p.queue[i].entity>>]
                     /\ containers' =
                            IF p.container = None THEN containers
                            ELSE [containers EXCEPT ![e] = p.container]
                     /\ IF e \in DOMAIN rects
                        THEN /\ rects' = [rects EXCEPT
                                    ![e] = under_transform2(p.rect, parent.affine)]
                             /\ transforms' = [transforms EXCEPT
                                    ![e] = written_transform(transforms[e], result,
                                             [mode |-> nodes[e].interpolate.mode,
                                              changed |-> e \in changed])]
                             /\ writes' = Append(writes, e)
                        ELSE UNCHANGED <<rects, transforms, writes>>
    /\ UNCHANGED <<changed, prev, dirty, edits>>
    /\ UNCHANGED <<rangeVars, rectVars, containerVars, worldVars, callVars>>

\* the while loop left after one level, whatever queue_a still holds
Return_AfterOneLevel ==
    /\ pc = "loop"
    /\ processed # <<>>
    /\ pc' = "idle"
    /\ changed' = {}
    /\ UNCHANGED <<containers, rects, transforms, queue_a, queue_b,
                   processed, writes, pushes, prev, dirty, edits>>
    /\ UNCHANGED <<rangeVars, rectVars, containerVars, worldVars, callVars>>

\* the while loop finds queue_a empty: compute_transform_2d returns.
Return ==
    /\ pc = "loop"
    /\ queue_a = <<>>
    /\ pc' = "idle"
    /\ changed' = {}
    /\ UNCHANGED <<containers, rects, transforms, queue_a, queue_b,
                   processed, writes, pushes, prev, dirty, edits>>
    /\ UNCHANGED <<rangeVars, rectVars, containerVars, worldVars, callVars>>

Next == Seed \/ SwapQueues \/ Propagate \/ Return

\* ---- the padding rescale of the container branch on its own

LayoutDimensions == {<<0, 0>>, <<4, 4>>, <<4, 0>>, <<6, 2>>}

Paddings == {<<0, 0>>, <<2, 2>>, <<1, 0>>, <<-2, -2>>, <<-2, 0>>, <<0, -1>>}

InitRescale ==
    /\ range = RangeAll
    /\ range0 = RangeAll
    /\ total = 0
    /\ window = [start |-> 0, end |-> 0]
    /\ rpc = "new"
    /\ nrects = <<>>
    /\ nbounds = Rect(<<0, 0>>, <<0, 0>>)
    /\ IdleConstruct
    /\ IdleContainer
    /\ EmptyWorld
    /\ \E new_dim \in LayoutDimensions, padding \in Paddings, a \in Presets :
          fnargs = [new_dim |-> new_dim, padding |-> padding,
                    entity_anchors |-> <<[entity |-> 1, anchor |-> a]>>]
    /\ fnout = <<>>

\* lines 102-107 of propagate run on the layout's output
Rescale ==
    /\ fnout = <<>>
    /\ fnout' = rescale(fnargs.entity_anchors,
                        padding_fac(fnargs.new_dim,
                                    VMul(fnargs.padding, <<2, 2>>)))
    /\ UNCHANGED fnargs
    /\ UNCHANGED <<rangeVars, rectVars, containerVars, worldVars, walkVars>>

SpecRescale == InitRescale /\ [][Rescale]_vars

\* ---- Transform2::mul on its own

Transform2s ==
    {[translation |-> t, rotation |-> k, scale |-> sc] :
        t \in {<<0, 0>>, <<3, -2>>},
        k \in {0, 1, 2},
        sc \in {<<1, 1>>, <<2, 2>>, <<1, 2>>}}

InitAffine ==
    /\ range = RangeAll
    /\ range0 = RangeAll
    /\ total = 0
    /\ window = [start |-> 0, end |-> 0]
    /\ rpc = "new"
    /\ nrects = <<>>
    /\ nbounds = Rect(<<0, 0>>, <<0, 0>>)
    /\ IdleConstruct
    /\ IdleContainer
    /\ EmptyWorld
    /\ \E a \in Transform2s, b \in Transform2s, point \in {<<1, 0>>, <<2, 3>>} :
          fnargs = [a |-> a, b |-> b, point |-> point]
    /\ fnout = <<>>

\* a.mul(b), and a multiplied with IDENTITY on either side
Mul ==
    /\ fnout = <<>>
    /\ fnout' = [product |-> mul(fnargs.a, fnargs.b),
                 left |-> mul(IDENTITY, fnargs.a),
                 right |-> mul(fnargs.a, IDENTITY)]
    /\ UNCHANGED fnargs
    /\ UNCHANGED <<rangeVars, rectVars, containerVars, worldVars, walkVars>>

SpecAffine == InitAffine /\ [][Mul]_vars

----------------------------------------------------------------------------
(* Worlds: the entity hierarchies the walker is run on                     *)

\* bevy Transform::IDENTITY
DefaultTransform ==
    [translation |-> <<0, 0, 0>>, rotation |-> 0, scale |-> <<1, 1, 1>>]

\* InterpolateTransform::None
NoInterpolate == [mode |-> "None"]

\* the REntity components of an entity spawned with Transform2D
Node(dim, tr, beh, ctl) ==
    [dimension |-> dim, transform |-> tr, behavior |-> beh, control |-> ctl,
     interpolate |-> NoInterpolate]

\* RectrayFrame::from_anchor_dimension
from_anchor_dimension(a, dim) ==
    [dimension |-> dim, at |-> a, z |-> 0, pickable |-> TRUE]

\* every entity that is some entity's child
Spawned(ch) == UNION {{ch[p][i] : i \in 1..Len(ch[p])} : p \in DOMAIN ch}

\* the app right after spawning, before the first tick: every child entity
\* has a Transform and a RotatedRect, whether or not it has a Transform2D,
\* and so has a Frame that carries a Transform2D
World(ch, fr, nd, ct) ==
    /\ children = ch
    /\ frames = fr
    /\ nodes = nd
    /\ containers = ct
    /\ rects = [e \in (Spawned(ch) \ DOMAIN fr) \cup DOMAIN nd |-> DefaultRect]
    /\ transforms =
          [e \in (Spawned(ch) \ DOMAIN fr) \cup DOMAIN nd |-> DefaultTransform]
    /\ queue_a = <<>>
    /\ queue_b = <<>>
    /\ pc = "idle"
    /\ changed = (Spawned(ch) \ DOMAIN fr) \cup DOMAIN nd
    /\ processed = <<>>
    /\ writes = <<>>
    /\ pushes = <<>>
    /\ prev = <<>>
    /\ dirty = FALSE
    /\ edits = 0
    /\ IdleCalls

\* no LayoutRange is under test in the walker specifications
IdleRange ==
    /\ range = RangeAll
    /\ range0 = RangeAll
    /\ total = 0
    /\ window = NoWindow
    /\ rpc = "new"
    /\ nrects = <<>>
    /\ nbounds = Rect(<<0, 0>>, <<0, 0>>)
    /\ IdleConstruct
    /\ IdleContainer

\* ---- tooltip worlds: Frame 0 > anchor point 1 > tooltip 2 (examples/tooltip.rs)

MaxChoices == 4

SwapDirections == {"B", "L", "BL", "TR"}

TipOffsets == {<<0, 0>>, <<7, 7>>, <<-7, -7>>, <<0, 7>>}

InitSwap ==
    /\ IdleRange
    /\ \E list \in SeqsUpTo(SwapDirections, MaxChoices),
          off \in TipOffsets,
          a \in {CENTER, TOP_LEFT} :
          World(0 :> <<1>> @@ 1 :> <<2>>,
                0 :> from_anchor_dimension(CENTER, <<16, 16>>),
                1 :> Node(<<2, 2>>, [IDENTITY2D EXCEPT !.offset = off],
                          BehaviorNone, "None")
                @@ 2 :> Node(<<4, 4>>, [IDENTITY2D EXCEPT !.anchor = a],
                             anchor_swap(list), "None"),
                <<>>)

SpecSwap == InitSwap /\ [][Next]_vars

\* ---- nudge worlds: Frame 0 > group 1 > anchor point 2 > tooltip 3

InitNudge ==
    /\ IdleRange
    /\ \E at \in {CENTER, BOTTOM_LEFT},
          grot \in {0, 1},
          gscale \in {<<1, 1>>, <<2, 2>>, <<1, 2>>},
          goff \in {<<0, 0>>, <<3, -2>>},
          prot \in {0, 3},
          poff \in {<<0, 0>>, <<4, 4>>},
          dim \in {<<4, 4>>, <<6, 2>>, <<20, 2>>},
          off \in {<<0, 0>>, <<5, 0>>, <<-5, -5>>, <<0, 6>>},
          rot \in {0, 1} :
          World(0 :> <<1>> @@ 1 :> <<2>> @@ 2 :> <<3>>,
                0 :> from_anchor_dimension(at, <<16, 16>>),
                1 :> Node(<<4, 4>>,
                          [IDENTITY2D EXCEPT !.rotation = grot, !.scale = gscale,
                                             !.offset = goff],
                          BehaviorNone, "None")
                @@ 2 :> Node(<<2, 2>>,
                             [IDENTITY2D EXCEPT !.rotation = prot, !.offset = poff],
                             BehaviorNone, "None")
                @@ 3 :> Node(dim,
                             [IDENTITY2D EXCEPT !.rotation = rot, !.offset = off],
                             BehaviorNudge, "None"),
                <<>>)

SpecNudge == InitNudge /\ [][Next]_vars

\* ---- tree worlds: Frame 0 over five entities, any of which may lack the
\* descriptor components, with Bounds containers at entities 1 and 3

TreeShapes ==
    {0 :> <<1>> @@ 1 :> <<2, 3>> @@ 2 :> <<4>> @@ 3 :> <<5>>,
     0 :> <<1, 2>> @@ 1 :> <<3, 4>> @@ 3 :> <<5>>,
     0 :> <<1>> @@ 1 :> <<2, 3, 4>> @@ 3 :> <<5>>}

\* Container with the default (Bounds) layout
BoundsContainer(padding, r) ==
    [layout |-> PADDING, margin |-> <<0, 0>>, padding |-> padding,
     range |-> r, maximum |-> 0]

TreeNode(e, ctl) ==
    Node(<<4, 4>>,
         [IDENTITY2D EXCEPT !.anchor = IF e = 2 THEN TOP_LEFT ELSE CENTER,
                            !.offset = IF e = 1 THEN <<2, 0>> ELSE <<0, 0>>],
         BehaviorNone,
         IF e = 4 THEN ctl ELSE "None")

InitTree ==
    /\ IdleRange
    /\ \E shape \in TreeShapes,
          managed \in SUBSET (1..5),
          cs \in SUBSET {1, 3},
          padding \in {<<0, 0>>, <<2, 2>>},
          r \in {RangeAll, Bounded(1, 1), Stepped(1, 0)},
          ctl \in {"None", "IgnoreLayout"} :
          World(shape,
                0 :> from_anchor_dimension(CENTER, <<16, 16>>),
                [e \in managed |-> TreeNode(e, ctl)],
                [e \in cs |-> BoundsContainer(padding, r)])

Init == InitTree

Spec == Init /\ [][Next]_vars

\* ---- panel worlds: Frame 0 > panel 1 (a Bounds container) > items 2, 3, 4,
\* item 2 > label 5; other systems edit components between two ticks

MaxEdits == 2

\* InterpolateTransform::ExponentialDecay(fac)
ExponentialDecay == [mode |-> "ExponentialDecay"]

MoveOffsets == {<<0, 0>>, <<8, 0>>}

PanelNode(e, off, interp) ==
    [Node(IF e = 5 THEN <<2, 2>> ELSE <<4, 4>>,
          [IDENTITY2D EXCEPT !.offset = IF e = 1 THEN off ELSE <<0, 0>>],
          CASE e = 3 -> BehaviorNudge
            [] e = 4 -> anchor_swap(<<"L", "B">>)
            [] OTHER -> BehaviorNone,
          "None")
     EXCEPT !.interpolate = interp]

InitPanel ==
    /\ IdleRange
    /\ \E r \in {RangeAll, Bounded(0, 1), Capped(1, 2)},
          off \in MoveOffsets,
          interp \in {NoInterpolate, ExponentialDecay} :
          World(0 :> <<1>> @@ 1 :> <<2, 3, 4>> @@ 2 :> <<5>>,
                0 :> from_anchor_dimension(CENTER, <<16, 16>>),
                [e \in 1..5 |-> PanelNode(e, off, interp)],
                1 :> BoundsContainer(<<0, 0>>, r))

\* a system calls Container::increment or Container::decrement between ticks
Scroll ==
    /\ pc = "idle"
    /\ edits < MaxEdits
    /\ \E e \in DOMAIN containers :
          \/ containers' = [containers EXCEPT ![e] = increment(containers[e])]
          \/ containers' = [containers EXCEPT ![e] = decrement(containers[e])]
    /\ dirty' = TRUE
    /\ edits' = edits + 1
    /\ UNCHANGED <<rects, transforms, queue_a, queue_b, pc, changed,
                   processed, writes, pushes, prev>>
    /\ UNCHANGED <<rangeVars, rectVars, containerVars, worldVars, callVars>>

\* a system writes Transform2D::offset of the panel or of an item between ticks
Move ==
    /\ pc = "idle"
    /\ edits < MaxEdits
    /\ \E e \in DOMAIN nodes \cap {1, 2}, off \in MoveOffsets :
          /\ off # nodes[e].transform.offset
          /\ nodes' = [nodes EXCEPT ![e].transform.offset = off]
    /\ dirty' = TRUE
    /\ edits' = edits + 1
    /\ UNCHANGED <<children, frames>>
    /\ UNCHANGED <<containers, rects, transforms, queue_a, queue_b, pc, changed,
                   processed, writes, pushes, prev>>
    /\ UNCHANGED <<rangeVars, rectVars, containerVars, callVars>>

\* a system sets the InterpolateTransform of the panel or of an item between
\* ticks: change detection reports it to the next run of the walker
SetInterpolate ==
    /\ pc = "idle"
    /\ edits < MaxEdits
    /\ \E e \in DOMAIN nodes \cap {1, 2},
          interp \in {NoInterpolate, ExponentialDecay} :
          /\ nodes' = [nodes EXCEPT ![e].interpolate = interp]
          /\ changed' = changed \cup {e}
    /\ dirty' = TRUE
    /\ edits' = edits + 1
    /\ UNCHANGED <<children, frames>>
    /\ UNCHANGED <<containers, rects, transforms, queue_a, queue_b, pc,
                   processed, writes, pushes, prev>>
    /\ UNCHANGED <<rangeVars, rectVars, containerVars, callVars>>

SpecEdit == InitPanel /\ [][Next \/ Scroll \/ Move \/ SetInterpolate]_vars

\* ---- two-frame worlds: Frame 0 > node 1 > tooltip 2 and Frame 6 > node 3 >
\* tooltip 4, with Frame 6 either a root of its own or a child of node 1
\* that carries a Transform2D as well

FrameShapes ==
    {0 :> <<1>> @@ 1 :> <<2>> @@ 6 :> <<3>> @@ 3 :> <<4>>,
     0 :> <<1>> @@ 1 :> <<2, 6>> @@ 6 :> <<3>> @@ 3 :> <<4>>}

InitFrames ==
    /\ IdleRange
    /\ \E shape \in FrameShapes,
          at0 \in {CENTER, BOTTOM_LEFT, TOP_RIGHT},
          at6 \in {CENTER, BOTTOM_LEFT},
          a \in Presets,
          dim \in {<<4, 4>>, <<8, 8>>},
          off \in {<<0, 0>>, <<6, 0>>} :
          World(shape,
                0 :> from_anchor_dimension(at0, <<16, 16>>)
                @@ 6 :> from_anchor_dimension(at6, <<8, 8>>),
                [e \in (1..4) \cup (IF 6 \in Spawned(shape) THEN {6} ELSE {}) |->
                    CASE e \in {1, 3} ->
                            Node(dim, [IDENTITY2D EXCEPT !.anchor = a],
                                 BehaviorNone, "None")
                      [] e \in {2, 4} ->
                            Node(<<4, 4>>, [IDENTITY2D EXCEPT !.offset = off],
                                 BehaviorNudge, "None")
                      [] OTHER -> Node(<<8, 8>>, IDENTITY2D, BehaviorNone, "None")],
                <<>>)

SpecFrames == InitFrames /\ [][Next]_vars

----------------------------------------------------------------------------
(* Properties of LayoutRange, checked under SpecRange                      *)

\* C1: for every policy and every total, once resolve(total) has returned,
\* to_range(total) is an interval with 0 <= start <= end <= total, so the
\* slice entities[range] taken by BoundsLayout::place is in bounds.
C1_WindowWithinTotal ==
    rpc = "ranged" =>
        /\ 0 <= window.start
        /\ window.start <= window.end
        /\ window.end <= total

\* C1 witness: a Bounded range whose min had to be pulled back, converted
\* to a non-empty window ending at total.
C1_Witness ==
    /\ rpc = "ranged"
    /\ range.tag = "Bounded"
    /\ range.min < range0.min
    /\ window.start < window.end
    /\ window.end = total

\* C2 as stated: after resolve(total) a Bounded range has min + len <= total
\* for every min, len and total.
C2_Original ==
    (rpc \in {"resolved", "ranged"} /\ range.tag = "Bounded") =>
        range.min + range.len <= total

\* C2 amended: resolve clamps only min.  A Bounded range with len <= total
\* ends up with min + len <= total; with len > total it ends up with
\* min = 0 and len unchanged (so min + len > total).  min never grows and
\* a range that already fits is left alone.
C2_BoundedClamped ==
    (rpc \in {"resolved", "ranged"} /\ range.tag = "Bounded") =>
        /\ range.len = range0.len
        /\ range.min <= range0.min
        /\ (range.len <= total => range.min + range.len <= total)
        /\ (range.len > total => range.min = 0)
        /\ (range0.min + range0.len <= total => range = range0)

\* C2 witness: a Bounded range with len <= total whose min was clamped.
C2_Witness ==
    /\ rpc = "resolved"
    /\ range.tag = "Bounded"
    /\ range.len >= 1
    /\ range.len <= total
    /\ range.min < range0.min
    /\ range.min + range.len = total

\* C3: for Stepped{step,len} after resolve(total), to_range(total) is page
\* `step` of size `len`: [step*len, min(step*len + len, total)).
C3_SteppedPage ==
    (rpc = "ranged" /\ range.tag = "Stepped") =>
        window = [start |-> range.step * range.len,
                  end |-> Min2(range.step * range.len + range.len, total)]

\* C4: resolve(total) returns normally for every LayoutRange value,
\* including len = 0 and total = 0.
C4_ResolveNeverFails == rpc # "panicked"

\* C5: for Capped{min,len} with total >= 1, resolve leaves min <= total-1
\* and len unchanged, and to_range(total) is [min, min(min+len, total)),
\* non-empty whenever len >= 1.
C5_CappedWindow ==
    (range.tag = "Capped" /\ total >= 1) =>
        /\ rpc \in {"resolved", "ranged"} =>
              /\ range.min <= total - 1
              /\ range.len = range0.len
        /\ rpc = "ranged" =>
              /\ window.start = range.min
              /\ window.end = Min2(range.min + range.len, total)
              /\ (range.len >= 1 => window.start < window.end)

\* C5 witness: a Capped window that shrank at the end of the list: min was
\* clamped to total-1 and fewer than len items are selected.
C5_Witness ==
    /\ rpc = "ranged"
    /\ range.tag = "Capped"
    /\ total >= 2
    /\ range.len >= 2
    /\ range0.min > total - 1
    /\ range.min = total - 1
    /\ window.end - window.start = 1

----------------------------------------------------------------------------
(* Properties of the AnchorSwap policy, checked under SpecSwap             *)

\* the leaves with OutOfFrameBehavior::AnchorSwap processed in this tick,
\* as indices into `processed`
SwapLeaves ==
    {i \in 1..Len(processed) :
        LET e == processed[i].entity
        IN /\ e \in DOMAIN nodes
           /\ e \notin DOMAIN containers
           /\ e \in DOMAIN rects
           /\ nodes[e].behavior.tag = "AnchorSwap"}

\* the frame-space rect of processed leaf i built from its own anchors
OwnRect(i) ==
    LET e == processed[i].entity
        info == processed[i].parent
    IN under_transform2(
           construct(info, nodes[e].transform, nodes[e].dimension, info.frame),
           info.affine)

\* the frame-space rect of processed leaf i built from its k-th candidate
CandidateRect(i, k) ==
    LET e == processed[i].entity
        info == processed[i].parent
    IN under_transform2(
           swap_rect(info, nodes[e].transform, nodes[e].dimension,
                     nodes[e].behavior.choices[k]),
           info.affine)

\* the listed candidates of processed leaf i whose rect is inside the frame
Fitting(i) ==
    {k \in 1..nodes[processed[i].entity].behavior.len :
        is_inside(CandidateRect(i, k), processed[i].parent.frame_rect)}

Least(S) == CHOOSE k \in S : \A j \in S : k <= j

\* C6 as stated: the node's own pair is tried before the list, so when the
\* rect built from the own pair is inside the frame that rect is kept.
C6_Original ==
    \A i \in SwapLeaves :
        is_inside(OwnRect(i), processed[i].parent.frame_rect) =>
            rects[processed[i].entity] = OwnRect(i)

\* C6 amended: the node's own pair is never tested against the frame, it
\* is only the fallback.  When the own rect is inside the frame and a
\* listed candidate also fits, the first fitting candidate's rect is kept;
\* the own rect is kept when no listed candidate fits.
C6_OwnPairIsFallback ==
    \A i \in SwapLeaves :
        is_inside(OwnRect(i), processed[i].parent.frame_rect) =>
            IF Fitting(i) # {}
               THEN rects[processed[i].entity] = CandidateRect(i, Least(Fitting(i)))
               ELSE rects[processed[i].entity] = OwnRect(i)

\* C6 witness: the own rect fits, a listed candidate fits too and gives a
\* different rect, which is the one written.
C6_Witness ==
    \E i \in SwapLeaves :
        /\ is_inside(OwnRect(i), processed[i].parent.frame_rect)
        /\ Fitting(i) # {}
        /\ CandidateRect(i, Least(Fitting(i))) # OwnRect(i)
        /\ rects[processed[i].entity] = CandidateRect(i, Least(Fitting(i)))

\* C7: the listed candidates are tried in list order and the first one
\* whose frame-space rect is inside frame_rect is written; when exactly one
\* candidate fits it is written whatever its index; when none fits the
\* rect built from the node's own anchors is written.
C7_FirstFittingCandidate ==
    \A i \in SwapLeaves :
        LET r == rects[processed[i].entity]
        IN /\ Fitting(i) # {} => r = CandidateRect(i, Least(Fitting(i)))
           /\ \A k \in Fitting(i) : Fitting(i) = {k} => r = CandidateRect(i, k)
           /\ Fitting(i) = {} => r = OwnRect(i)

\* C7 witness: four candidates, only the last one fits, and it is written
\* although the own rect is outside the frame.
C7_Witness ==
    \E i \in SwapLeaves :
        /\ nodes[processed[i].entity].behavior.len = 4
        /\ Fitting(i) = {4}
        /\ ~is_inside(OwnRect(i), processed[i].parent.frame_rect)
        /\ rects[processed[i].entity] = CandidateRect(i, 4)
        /\ rects[processed[i].entity] # OwnRect(i)

----------------------------------------------------------------------------
(* Properties of nudge_inside, checked under SpecNudgeInside               *)

\* how far an interval [lo, hi] must move to lie within [blo, bhi] when it
\* is not longer than it: up by the underflow or down by the overflow
Overflow(lo, hi, blo, bhi) == Max2(blo - lo, 0) - Max2(hi - bhi, 0)

\* C9: nudge_inside(bounds) leaves the rect unchanged when its aabb is
\* larger than bounds on either axis or the rect is already inside;
\* otherwise it moves the center on each axis by exactly that axis's
\* overflow, changes nothing else, and is_inside(bounds) holds afterwards;
\* a second application changes nothing.
C9_NudgeInside ==
    Len(nrects) >= 2 =>
        LET r0 == nrects[1]
            r1 == nrects[2]
            box == aabb(r0)
        IN /\ IF \/ box.max[1] - box.min[1] > nbounds.max[1] - nbounds.min[1]
                 \/ box.max[2] - box.min[2] > nbounds.max[2] - nbounds.min[2]
                 \/ is_inside(r0, nbounds)
              THEN r1 = r0
              ELSE /\ r1.center[1] - r0.center[1] =
                        Overflow(box.min[1], box.max[1], nbounds.min[1], nbounds.max[1])
                   /\ r1.center[2] - r0.center[2] =
                        Overflow(box.min[2], box.max[2], nbounds.min[2], nbounds.max[2])
                   /\ r1 = [r0 EXCEPT !.center = r1.center]
                   /\ is_inside(r1, nbounds)
           /\ \A j \in 3..Len(nrects) : nrects[j] = r1

\* C9 witness: a rect that fits but overflows on both axes was moved on
\* both, is inside afterwards, and a second nudge left it where it was.
C9_Witness ==
    /\ Len(nrects) = 3
    /\ ~is_inside(nrects[1], nbounds)
    /\ nrects[2].center[1] # nrects[1].center[1]
    /\ nrects[2].center[2] # nrects[1].center[2]
    /\ is_inside(nrects[2], nbounds)
    /\ nrects[3] = nrects[2]

----------------------------------------------------------------------------
(* Properties of the Nudge policy, checked under SpecNudge                 *)

\* the leaves with OutOfFrameBehavior::Nudge processed in this tick under a
\* composed parent affine with zero net rotation, as indices into `processed`
NudgeLeaves ==
    {i \in 1..Len(processed) :
        LET e == processed[i].entity
        IN /\ e \in DOMAIN nodes
           /\ e \notin DOMAIN containers
           /\ e \in DOMAIN rects
           /\ nodes[e].behavior.tag = "Nudge"
           /\ processed[i].parent.affine.rotation % 4 = 0}

\* the aabb of the frame-space rect of processed leaf i before the nudge
\* fits within frame_rect on both axes
FitsFrame(i) ==
    LET box == aabb(OwnRect(i))
        fr == processed[i].parent.frame_rect
    IN /\ box.max[1] - box.min[1] <= fr.max[1] - fr.min[1]
       /\ box.max[2] - box.min[2] <= fr.max[2] - fr.min[2]

\* the aabb of the rect written for processed leaf i is inside frame_rect
WrittenInsideFrame(i) ==
    LET box == aabb(rects[processed[i].entity])
        fr == processed[i].parent.frame_rect
    IN contains(fr, box.min) /\ contains(fr, box.max)

\* C8: for a Nudge leaf under a composed parent affine with zero net
\* rotation (whatever its translation and scale), if the aabb of its
\* frame-space rect fits within frame_rect, the frame-space RotatedRect
\* written in that tick has its aabb fully inside frame_rect.
C8_NudgedInsideFrame ==
    \A i \in NudgeLeaves : FitsFrame(i) => WrittenInsideFrame(i)

----------------------------------------------------------------------------
(* Properties of the walker, checked under Spec                            *)

\* the set of elements of a sequence
Elems(q) == {q[i] : i \in 1..Len(q)}

RECURSIVE Below(_)
\* the descendants of e that can only be reached through e: its subtree,
\* not descending into a Frame (whose children are seeded on their own)
Below(e) ==
    LET cs == Elems(children_of(e))
    IN cs \cup UNION {Below(c) : c \in cs \ DOMAIN frames}

\* the entities that lack the REntity components and are not Frames
Unmatched == (DOMAIN rects \cup Spawned(children)) \ (DOMAIN nodes \cup DOMAIN frames)

\* C10: an entity that lacks the required descriptor components is skipped
\* without error: nothing is written for it, propagate enqueues no child
\* through it (a container does not even enqueue it), and no descendant
\* reachable only through it is processed or written in that tick.
C10_UnmatchedSkipped ==
    /\ \A e \in Unmatched :
          /\ e \notin Elems(writes)
          /\ \A k \in 1..Len(pushes) : pushes[k][1] # e
          /\ \A d \in Below(e) :
                /\ d \notin Elems(writes)
                /\ \A i \in 1..Len(processed) : processed[i].entity # d
    /\ \A k \in 1..Len(pushes) :
          pushes[k][1] \in DOMAIN containers => pushes[k][2] \in DOMAIN nodes
    /\ (pc = "panicked" => processed[Len(processed)].entity \in DOMAIN nodes)

\* C10 witness: a finished tick in which propagate was called on an entity
\* without the components, its parent and siblings were written, and a
\* descendant that does carry the components kept its initial rect.
C10_Witness ==
    /\ pc = "idle"
    /\ writes # <<>>
    /\ \E e \in Unmatched :
          /\ \E i \in 1..Len(processed) : processed[i].entity = e
          /\ \E d \in Below(e) :
                /\ d \in DOMAIN nodes
                /\ d \notin Elems(writes)
                /\ rects[d] = DefaultRect

----------------------------------------------------------------------------
(* Termination and queue hygiene of the walker, checked under Spec         *)

\* the parent-child edges of the hierarchy
Edges == UNION {{<<p, i>> : i \in 1..Len(children[p])} : p \in DOMAIN children}

\* the entries compute_transform_2d seeds: one per child of a Frame
SeededEdges == {pi \in Edges : pi[1] \in DOMAIN frames}

\* C11: on a finite acyclic hierarchy the number of propagate calls in a
\* tick never exceeds the number of entries enqueued in it (seeded or
\* pushed), which never exceeds the number of parent-child edges, so the
\* loop ends; and when compute_transform_2d returns both queues are empty.
C11_WalkBounded ==
    /\ Len(processed) <= Cardinality(SeededEdges) + Len(pushes)
    /\ Cardinality(SeededEdges) + Len(pushes) <= Cardinality(Edges)
    /\ (pc # "idle" =>
          Len(processed) + Len(queue_a) + Len(queue_b) =
              Cardinality(SeededEdges) + Len(pushes))
    /\ (pc = "idle" => queue_a = <<>> /\ queue_b = <<>>)

\* C11 witness: a tick has returned after one propagate call per edge of a
\* three-level hierarchy, and the queues are empty.
C11_Witness ==
    /\ pc = "idle"
    /\ Len(processed) = Cardinality(Edges)
    /\ Len(pushes) >= 4
    /\ queue_a = <<>>
    /\ queue_b = <<>>

----------------------------------------------------------------------------
(* Properties of RotatedRect, checked under SpecConstruct                  *)

\* C12: for a rect built by construct with zero rotation and no
\* layout-forced anchor, rect.anchor(transform.anchor) is
\* parent.dimension * parent_anchor + offset, with parent_anchor =
\* transform.parent_anchor.or(transform.anchor), whatever transform.center is.
C12_AnchorsOverlap ==
    (/\ cpoint # None
     /\ cargs.probe = cargs.transform.anchor
     /\ cargs.transform.rotation = 0
     /\ cargs.parent.anchor = None) =>
        cpoint[1] = VAdd(VScaled(cargs.parent.dimension,
                                 get_parent_anchor(cargs.transform)),
                         cargs.transform.offset)

\* C17: for any RotatedRect R and anchor A, R.local_space(R.anchor(A)) equals
\* R.dimension * A, for every center, dimension and rotation.
C17_LocalSpaceInvertsAnchor ==
    clocal # None => clocal[1] = VScaled(crect[1].dimension, cargs.probe)

\* C17 witness: a rect turned by a quarter turn with its center away from
\* the origin, probed at a corner: the frame-space point differs from
\* dimension * A and local_space brings it back.
C17_Witness ==
    /\ clocal # None
    /\ crect[1].rotation = 1
    /\ crect[1].center # <<0, 0>>
    /\ cargs.probe = TOP_LEFT
    /\ cpoint[1] # VScaled(crect[1].dimension, cargs.probe)
    /\ clocal[1] = VScaled(crect[1].dimension, cargs.probe)

----------------------------------------------------------------------------
(* Properties of the container branch of propagate, checked under Spec     *)

\* the entity whose Children list holds e
ParentEntity(e) == CHOOSE p \in DOMAIN children : e \in Elems(children[p])

\* what the layout of container c returns in this tick (resolve leaves a
\* range it has already clamped as it is, so the stored range serves)
Placed(c) ==
    place(containers[c].layout,
          [dimension |-> nodes[c].dimension, margin |-> containers[c].margin],
          layout_items(c), containers[c].range)

\* the anchor the layout of container c returned for its child e
PlacedAnchor(c, e) ==
    LET out == Placed(c).entity_anchors
        k == CHOOSE j \in 1..Len(out) : out[j].entity = e
    IN out[k].anchor

\* the entries processed in this tick that carry an anchor forced by the
\* parent's layout, as indices into `processed`
LaidOut == {i \in 1..Len(processed) : processed[i].parent.anchor # None}

\* C13: for a container with padding p whose layout returned dimension D
\* and anchor a for a child, the ParentInfo passed to that child satisfies
\* ParentInfo.dimension * forced_anchor = D * a on each axis.
C13_PaddingCompensated ==
    \A i \in LaidOut :
        LET e == processed[i].entity
            info == processed[i].parent
            c == ParentEntity(e)
        IN VScaled(info.dimension, info.anchor[1]) =
               VScaled(Placed(c).dimension, PlacedAnchor(c, e))

----------------------------------------------------------------------------
(* Properties of BoundsLayout::place and Container, checked under          *)
(* SpecContainer                                                           *)

\* the window of the last tick: the stored (resolved) range as an interval
TickWindow == to_range(cont.range, Len(largs.entities))

\* the largest of a set of lengths, 0 for none (the fold starts at ZERO)
Largest(S) == IF S = {} THEN 0 ELSE CHOOSE m \in S : \A x \in S : x <= m

\* the largest extent on axis ax over the items inside the window
WindowExtent(ax) ==
    Largest({largs.entities[k].dimension[ax] :
                k \in (TickWindow.start + 1)..TickWindow.end})

\* v clamped to [lo, hi], for lo <= hi
Clamped(v, lo, hi) == IF v < lo THEN lo ELSE IF v > hi THEN hi ELSE v

\* C14: BoundsLayout::place returns exactly the items whose index lies in
\* the resolved range window, in input order, each with its own anchor; its
\* dimension is per axis the parent's dimension if the axis is fixed, else
\* the maximum dimension over the windowed items clamped to [min, max]
\* (min <= max); max_count is the number of input items.
C14_BoundsPlace ==
    cop = "place" =>
        LET out == lout[1]
            w == TickWindow
            items == largs.entities
        IN /\ cont.range = resolve(cont0.range, Len(items))
           /\ Len(out.entity_anchors) = w.end - w.start
           /\ \A k \in 1..Len(out.entity_anchors) :
                 /\ out.entity_anchors[k].entity = items[w.start + k].entity
                 /\ out.entity_anchors[k].anchor = items[w.start + k].anchor
           /\ \A ax \in 1..2 :
                 IF cont.layout.fixed[ax]
                 THEN out.dimension[ax] = largs.info.dimension[ax]
                 ELSE cont.layout.min[ax] <= cont.layout.max[ax] =>
                        out.dimension[ax] =
                            Clamped(WindowExtent(ax), cont.layout.min[ax],
                                    cont.layout.max[ax])
           /\ out.max_count = Len(items)

\* C14 witness: x_bounds(3, 5) over three items with the window on the
\* middle one only: that item alone is returned, x is its width clamped
\* down to 5, y is the parent's, and max_count is 3.
C14_Witness ==
    /\ cop = "place"
    /\ cont.layout = x_bounds(3, 5)
    /\ Len(largs.entities) = 3
    /\ TickWindow = [start |-> 1, end |-> 2]
    /\ largs.entities[2].dimension = <<6, 2>>
    /\ lout[1].entity_anchors = <<[entity |-> 2, anchor |-> CENTER]>>
    /\ lout[1].dimension = <<5, 10>>
    /\ lout[1].max_count = 3

\* C15: a container using BoundsLayout::from_max(m) resolves, per axis, to
\* the maximum dimension of its visible items capped at m: content smaller
\* than m keeps its own size, only content larger than m is reduced to m.
C15_FromMaxCaps ==
    (cop = "place" /\ cont.layout = from_max(cont.layout.max)) =>
        \A ax \in 1..2 :
            lout[1].dimension[ax] = Min2(WindowExtent(ax), cont.layout.max[ax])

\* the position of a range window: min, or step for Stepped
Position(r) == IF r.tag = "Stepped" THEN r.step ELSE r.min

\* range r moved to position p
AtPosition(r, p) ==
    IF r.tag = "Stepped" THEN [r EXCEPT !.step = p] ELSE [r EXCEPT !.min = p]

\* the positions of r that resolve(n) leaves alone
ValidPositions(r, n) ==
    {p \in 0..(n + 1) : resolve(AtPosition(r, p), n) = AtPosition(r, p)}

\* C16: for every policy with len >= 1 and every factor f in [0,1],
\* set_fac(f) leaves a range that resolve(maximum) does not change,
\* set_fac(0) selects the first position, set_fac(1) selects the last valid
\* position, and get_fac() returns a value in [0,1].
C16_SetFacValid ==
    /\ (cop = "set_fac" /\ cont.range.tag # "All" /\ cont.range.len >= 1) =>
          /\ resolve(cont.range, cont.maximum) = cont.range
          /\ (sfac = Some(Frac(0, 1)) => Position(cont.range) = 0)
          /\ (sfac = Some(Frac(1, 1)) =>
                Position(cont.range) =
                    Largest(ValidPositions(cont.range, cont.maximum)))
    /\ (cop = "get_fac" /\ (cont.range.tag = "All" \/ cont.range.len >= 1)) =>
          /\ 0 <= sfac[1].n
          /\ sfac[1].n <= sfac[1].d

\* C19: increment adds exactly 1 to min/step without clamping, decrement
\* subtracts 1 saturating at 0, neither changes len or anything else, both
\* leave All alone; whatever calls came before it, a tick resolves the
\* range first, so the window it uses lies within [0, total] and the range
\* it stores is within its clamp bounds.
C19_SteppingDeferredClamp ==
    /\ cop = "increment" =>
          cont = [cont0 EXCEPT !.range =
                     IF cont0.range.tag = "All" THEN cont0.range
                     ELSE AtPosition(cont0.range, Position(cont0.range) + 1)]
    /\ cop = "decrement" =>
          cont = [cont0 EXCEPT !.range =
                     IF cont0.range.tag = "All" THEN cont0.range
                     ELSE AtPosition(cont0.range,
                                     Max2(Position(cont0.range) - 1, 0))]
    /\ cop = "place" =>
          LET n == Len(largs.entities)
              r == cont.range
          IN /\ 0 <= TickWindow.start
             /\ TickWindow.start <= TickWindow.end
             /\ TickWindow.end <= n
             /\ r.len = cont0.range.len
             /\ (r.tag = "Bounded" => r.min <= Max2(n - r.len, 0))
             /\ (r.tag = "Capped" => r.min <= Max2(n - 1, 0))
             /\ (r.tag = "Stepped" => r.step <= n \div r.len)

\* C19 witness: two increment calls pushed a Capped window past the end of
\* a list that an earlier tick had counted; the tick that followed pulled
\* min back to total - 1 and used a non-empty window.
C19_Witness ==
    /\ cop = "place"
    /\ incs >= 2
    /\ cont.range.tag = "Capped"
    /\ cont0.maximum = Len(largs.entities)
    /\ cont0.range.min > Len(largs.entities)
    /\ cont.range.min = Len(largs.entities) - 1
    /\ TickWindow.start < TickWindow.end

----------------------------------------------------------------------------
(* The cached item count of containers, checked under Spec                 *)

\* the Containers on which propagate has run to completion in this tick
PlacedContainers ==
    {processed[i].entity : i \in
        {j \in 1..Len(processed) :
            /\ processed[j].entity \in DOMAIN nodes
            /\ processed[j].entity \in DOMAIN containers
            /\ ~(pc = "panicked" /\ j = Len(processed))}}

\* the direct children of e that carry the REntity components and are not
\* IgnoreLayout, as positions in its Children
LayoutChildren(e) ==
    {k \in 1..Len(children_of(e)) :
        /\ children_of(e)[k] \in DOMAIN nodes
        /\ nodes[children_of(e)[k]].control # "IgnoreLayout"}

\* the entries container e enqueued with a layout anchor in this tick
ShownBy(e) ==
    {i \in LaidOut : ParentEntity(processed[i].entity) = e}

\* C20: every Container processed in a tick has `maximum` equal to the
\* max_count its layout returned in that tick, which for the Bounds layout
\* is the number of direct children that carry the required components
\* and are not IgnoreLayout, whatever the range window.
C20_MaximumIsItemCount ==
    \A e \in PlacedContainers :
        /\ containers[e].maximum = Placed(e).max_count
        /\ containers[e].maximum = Cardinality(LayoutChildren(e))

\* C20 witness: after a tick a container with three children, one of them
\* IgnoreLayout, and a window of one item has maximum 2.
C20_Witness ==
    /\ pc = "idle"
    /\ \E e \in PlacedContainers :
          /\ Len(children_of(e)) = 3
          /\ Len(other_entities(e)) = 1
          /\ containers[e].maximum = 2
          /\ Len(Placed(e).entity_anchors) = 1
          /\ Cardinality(ShownBy(e)) = 1

----------------------------------------------------------------------------
(* The order of the traversal, checked under Spec                          *)

RECURSIVE Depth(_)
\* the depth of an entity below its Frame (a Frame's children are at 1)
Depth(e) ==
    IF ParentEntity(e) \in DOMAIN frames THEN 1 ELSE 1 + Depth(ParentEntity(e))

\* the entries still waiting in either queue
Pending == Elems(queue_a) \cup Elems(queue_b)

\* C18: within one tick all nodes at depth d are processed before any node
\* at depth d+1, and a node is processed only after its parent was
\* processed in the same tick, with the ParentInfo that the parent's
\* propagate call computed for it (a Frame's child: the seeded one).
C18_LevelSynchronous ==
    /\ \A i, j \in 1..Len(processed) :
          i < j => Depth(processed[i].entity) <= Depth(processed[j].entity)
    /\ \A i \in 1..Len(processed) : \A q \in Pending :
          Depth(processed[i].entity) <= Depth(q.entity)
    /\ \A j \in 1..Len(processed) :
          LET p == ParentEntity(processed[j].entity)
          IN IF p \in DOMAIN frames
             THEN processed[j] \in Elems(seed_of(p))
             ELSE \E i \in 1..(j - 1) :
                     /\ processed[i].entity = p
                     /\ p \in DOMAIN nodes
                     /\ processed[j] \in
                            Elems(propagate(processed[i].parent, p).queue)

\* C18 witness: a finished tick over three levels, two nodes on the second
\* and two on the third, processed level by level, the third level under
\* an affine composed from the moved first-level node.
C18_Witness ==
    /\ pc = "idle"
    /\ Len(processed) = 5
    /\ Depth(processed[1].entity) = 1
    /\ Depth(processed[2].entity) = 2
    /\ Depth(processed[3].entity) = 2
    /\ Depth(processed[4].entity) = 3
    /\ Depth(processed[5].entity) = 3
    /\ processed[4].parent.affine.translation # <<0, 0>>
    /\ processed[4].parent.affine # processed[2].parent.affine

----------------------------------------------------------------------------
(* Ticks separated by edits of other systems, checked under SpecEdit       *)

\* the laid-out children of container e that lie outside the window of the
\* range its last placement left in the Container
OutsideWindow(e) ==
    LET items == layout_items(e)
        w == to_range(containers[e].range, Len(items))
    IN {items[k].entity : k \in (1..Len(items)) \ ((w.start + 1)..w.end)}

\* C21: the children of a container processed in this tick that fall
\* outside the resolved range window are not enqueued; neither they nor any
\* of their descendants are processed or written in the tick, and their
\* RotatedRect and Transform are as the tick found them (stated up to the
\* next edit of a component).
C21_OutsideWindowUntouched ==
    \A e \in IF dirty THEN {} ELSE PlacedContainers :
        \A c \in OutsideWindow(e) :
            /\ \A k \in 1..Len(pushes) : pushes[k] # <<e, c>>
            /\ \A d \in {c} \cup Below(c) :
                  /\ d \notin Elems(writes)
                  /\ \A i \in 1..Len(processed) : processed[i].entity # d
                  /\ d \in DOMAIN rects =>
                        /\ rects[d] = prev.rects[d]
                        /\ transforms[d] = prev.transforms[d]

\* C21 witness: a finished tick in which the window had been scrolled past a
\* child written by an earlier tick: the child and a descendant of it keep
\* what that tick wrote while a sibling inside the window is written.
C21_Witness ==
    /\ pc = "idle"
    /\ ~dirty
    /\ \E e \in PlacedContainers :
          /\ \E k \in 1..Len(pushes) : pushes[k][1] = e
          /\ \E c \in OutsideWindow(e) :
                /\ rects[c] # DefaultRect
                /\ c \notin Elems(writes)
                /\ \E d \in Below(c) : rects[d] # DefaultRect

----------------------------------------------------------------------------
(* The parent anchor construct uses, checked under Spec                    *)

\* the entries of this tick on which propagate ran to its end, as indices
\* into `processed`
Completed ==
    {i \in 1..Len(processed) :
        /\ processed[i].entity \in DOMAIN nodes
        /\ ~(pc = "panicked" /\ i = Len(processed))}

\* entity e is placed by the layout of its parent
PlacedByLayout(e) ==
    /\ ParentEntity(e) \in DOMAIN nodes \cap DOMAIN containers
    /\ nodes[e].control # "IgnoreLayout"

\* the anchor the layout of container c resolved for its child e, rescaled
\* for the padding of c
RescaledAnchor(c, e) ==
    LET D == Placed(c).dimension
        p == containers[c].padding
    IN <<FMul(PlacedAnchor(c, e)[1], Frac(D[1], D[1] + 2 * p[1])),
         FMul(PlacedAnchor(c, e)[2], Frac(D[2], D[2] + 2 * p[2]))>>

\* the size of the rect of e: its Dimension, or for a container the
\* dimension of its layout plus the padding on both sides
RectSize(e) ==
    IF e \in DOMAIN containers
    THEN VAdd(Placed(e).dimension, VMul(containers[e].padding, <<2, 2>>))
    ELSE nodes[e].dimension

\* C22: a child placed by a container's layout is constructed on the
\* layout-resolved, padding-rescaled anchor in place of its own parent
\* anchor; an IgnoreLayout child of a container and a child of a
\* non-container are handed no anchor and are constructed on their own
\* parent_anchor.or(anchor).
C22_ForcedParentAnchor ==
    \A i \in Completed :
        LET e == processed[i].entity
            parent == processed[i].parent
            used == IF PlacedByLayout(e)
                    THEN RescaledAnchor(ParentEntity(e), e)
                    ELSE get_parent_anchor(nodes[e].transform)
        IN /\ parent.anchor = IF PlacedByLayout(e) THEN Some(used) ELSE None
           /\ e \in DOMAIN rects =>
                 rects[e] = under_transform2(
                                construct2(parent, nodes[e].transform, used,
                                           nodes[e].transform.anchor,
                                           RectSize(e), parent.frame),
                                parent.affine)

\* C22 witness: a finished tick in which a padded container placed a child
\* on a rescaled anchor that differs from the child's own parent anchor,
\* and handed no anchor to an IgnoreLayout child.
C22_Witness ==
    /\ pc = "idle"
    /\ \E i, j \in Completed :
          /\ PlacedByLayout(processed[i].entity)
          /\ processed[i].parent.anchor #
                Some(get_parent_anchor(nodes[processed[i].entity].transform))
          /\ processed[i].entity \in Elems(writes)
          /\ ParentEntity(processed[j].entity) \in DOMAIN containers
          /\ nodes[processed[j].entity].control = "IgnoreLayout"
          /\ processed[j].parent.anchor = None

----------------------------------------------------------------------------
(* The padding rescale, checked under SpecRescale                          *)

\* f32::is_finite
is_finite(f) == f.d # 0

\* the denominator new_dim + 2 * padding of the factor on axis ax
RescaleDenominator(ax) == fnargs.new_dim[ax] + 2 * fnargs.padding[ax]

\* C23: when the padding rescale factor has a zero denominator on an axis
\* or is NaN the anchors are enqueued unscaled, and the rescale never turns
\* a finite anchor into a NaN or infinite one.
C23_RescaleSkipsDegenerate ==
    fnout # <<>> =>
        /\ (\E ax \in 1..2 : RescaleDenominator(ax) = 0)
                => fnout = fnargs.entity_anchors
        /\ \A i \in 1..Len(fnout) : \A ax \in 1..2 :
                is_finite(fnout[i].anchor[ax])

----------------------------------------------------------------------------
(* Smoothing of the Transform write, checked under SpecEdit                *)

\* the parent-space rect propagate computes for the entry processed[i]
ComputedRect(i) == propagate(processed[i].parent, processed[i].entity).rect

\* the Transform target of the entry processed[i]
Target(i) ==
    transform_at(ComputedRect(i),
                 get_center(nodes[processed[i].entity].transform))

\* C24: in every tick the RotatedRect of a processed node is written
\* exactly to the computed frame-space rect; its Transform is set exactly
\* to the computed target when its InterpolateTransform is None or was
\* changed or added since the last run, even under ExponentialDecay, and
\* is smoothed from the Transform the tick found only under an unchanged
\* ExponentialDecay (stated up to the next edit of a component).
C24_SmoothingOnlyTransform ==
    \A i \in IF dirty THEN {} ELSE Completed :
        LET e == processed[i].entity
        IN e \in DOMAIN rects =>
            /\ rects[e] = under_transform2(ComputedRect(i),
                                           processed[i].parent.affine)
            /\ transforms[e] =
                  IF e \in prev.changed \/ nodes[e].interpolate.mode = "None"
                  THEN Target(i)
                  ELSE exp_decay_interpolate(prev.transforms[e], Target(i))

\* C24 witness: a finished second tick before which a node under
\* ExponentialDecay was moved and had its setting set again: its Transform
\* jumped to the target, which smoothing would not have reached.
C24_Witness ==
    /\ pc = "idle"
    /\ ~dirty
    /\ prev # <<>>
    /\ \E e \in DOMAIN rects : prev.rects[e] # DefaultRect
    /\ \E i \in Completed :
          LET e == processed[i].entity
          IN /\ nodes[e].interpolate.mode = "ExponentialDecay"
             /\ e \in prev.changed
             /\ prev.transforms[e] # Target(i)
             /\ exp_decay_interpolate(prev.transforms[e], Target(i)) # Target(i)
             /\ transforms[e] = Target(i)

----------------------------------------------------------------------------
(* Two ticks in succession, checked under SpecEdit                         *)

\* this tick follows a returned tick with no component edited in between,
\* and nothing has been edited since it started
RepeatedTick == prev # <<>> /\ prev.repeat /\ ~dirty

\* no node is smoothed
NoSmoothing == \A e \in DOMAIN nodes : nodes[e].interpolate.mode = "None"

\* the entry processed[i] is a leaf whose out-of-frame policy moved it away
\* from where construct alone puts it
PolicyMoved(i) ==
    LET e == processed[i].entity
    IN /\ e \notin DOMAIN containers
       /\ ComputedRect(i) # construct(processed[i].parent, nodes[e].transform,
                                      nodes[e].dimension, processed[i].parent.frame)

\* C25: a tick that follows a tick on an unchanged graph with no smoothing
\* writes for every node the RotatedRect and Transform the first tick wrote
\* and leaves every Container as the first tick left it, Nudge and
\* AnchorSwap leaves included.
C25_TickIdempotent ==
    (RepeatedTick /\ NoSmoothing) =>
        /\ rects = prev.rects
        /\ transforms = prev.transforms
        /\ containers = prev.containers

\* C25 witness: a finished repeated tick that wrote a nudged leaf and a
\* leaf whose anchor was swapped.
C25_Witness ==
    /\ pc = "idle"
    /\ RepeatedTick
    /\ NoSmoothing
    /\ \E i, j \in Completed :
          /\ nodes[processed[i].entity].behavior.tag = "Nudge"
          /\ PolicyMoved(i)
          /\ nodes[processed[j].entity].behavior.tag = "AnchorSwap"
          /\ PolicyMoved(j)
          /\ {processed[i].entity, processed[j].entity} \subseteq Elems(writes)

----------------------------------------------------------------------------
(* Several Frames, checked under SpecFrames                                *)

\* no Frame is a child of any entity
DisjointFrames == DOMAIN frames \cap Spawned(children) = {}

\* the ParentInfo entity e is handed when its Frame's subtree is walked on
\* its own, from the Frame downwards (for disjoint Frames)
RECURSIVE InfoOf(_)
InfoOf(e) ==
    LET p == ParentEntity(e)
        handed(q) == (CHOOSE x \in Elems(q) : x.entity = e).parent
    IN IF p \in DOMAIN frames THEN handed(seed_of(p))
       ELSE handed(propagate(InfoOf(p), p).queue)

\* C26: with disjoint Frame subtrees, whatever order the Frames are seeded
\* in and however their entries interleave in the queues, every node
\* written in the tick gets the RotatedRect and Transform that walking its
\* own Frame's subtree alone gives it.
C26_SeedOrderIrrelevant ==
    DisjointFrames =>
        \A e \in Elems(writes) :
            LET r == propagate(InfoOf(e), e).rect
            IN /\ rects[e] = under_transform2(r, InfoOf(e).affine)
               /\ transforms[e] =
                     transform_at(r, get_center(nodes[e].transform))

\* C26 witness: two ticks in succession on disjoint Frames that were seeded
\* in different orders, the second with the entries of the two Frames
\* interleaved in the queue, have written the same for all four nodes.
C26_Witness ==
    /\ pc = "idle"
    /\ DisjointFrames
    /\ prev # <<>>
    /\ prev.repeat
    /\ prev.order # prev.last_order
    /\ [i \in 1..Len(processed) |-> processed[i].entity] = <<3, 1, 4, 2>>
    /\ Elems(writes) = 1..4
    /\ rects = prev.rects
    /\ rects[1] # rects[3]

\* C27: within one tick every entity is dequeued and processed at most once
\* and its RotatedRect and Transform are written at most once, also when a
\* Frame is itself a managed descendant of another Frame's subtree.
C27_ProcessedOnce ==
    /\ \A i, j \in 1..Len(processed) :
          i # j => processed[i].entity # processed[j].entity
    /\ \A i, j \in 1..Len(writes) : i # j => writes[i] # writes[j]

----------------------------------------------------------------------------
(* Transform2::mul, checked under SpecAffine                               *)

\* C28: for all Transform2 values A, B and every point p,
\* A.mul(B).transform_point2(p) = A.transform_point2(B.transform_point2(p)),
\* a rotated A with a non-uniformly scaled B included, and IDENTITY is a
\* left and right identity of mul.
C28_MulIsComposition ==
    fnout # <<>> =>
        /\ transform_point2(fnout.product, fnargs.point) =
              transform_point2(fnargs.a,
                               transform_point2(fnargs.b, fnargs.point))
        /\ fnout.left = fnargs.a
        /\ fnout.right = fnargs.a

\* the entry processed[i] is a direct child of its Frame with zero offset,
\* zero rotation, unit scale, center CENTER, one preset as anchor and
\* parent anchor, and a dimension that fits the Frame's on both axes
PlainFrameChild(i) ==
    LET e == processed[i].entity
        f == processed[i].parent.frame
        t == nodes[e].transform
    IN /\ ParentEntity(e) = f
       /\ t.offset = <<0, 0>> /\ t.rotation = 0 /\ t.scale = <<1, 1>>
       /\ get_center(t) = CENTER
       /\ t.anchor \in Presets
       /\ get_parent_anchor(t) = t.anchor
       /\ nodes[e].behavior.tag = "None"
       /\ nodes[e].dimension[1] <= frames[f].dimension[1]
       /\ nodes[e].dimension[2] <= frames[f].dimension[2]

\* C29: the computed rect of such a child is inside its Frame's rect() for
\* every value of the Frame's origin anchor `at`.
C29_FrameChildInside ==
    \A i \in Completed :
        PlainFrameChild(i) =>
            is_inside(under_transform2(ComputedRect(i), processed[i].parent.affine),
                      frame_rect_of(frames[processed[i].parent.frame]))

\* the Frames on the chain of parents of entity e
RECURSIVE FramesAbove(_)
FramesAbove(e) ==
    LET p == ParentEntity(e)
    IN (IF p \in DOMAIN frames THEN {p} ELSE {})
       \cup (IF p \in Spawned(children) THEN FramesAbove(p) ELSE {})

\* the last entry of this tick processed for the entity of processed[i]
LastFor(i) ==
    \A j \in Completed : processed[j].entity = processed[i].entity => j <= i

====
